---- MODULE Spec2Model ----
(***************************************************************************)
(* A model of the bias/neutrality scoring engine of EchoChamber            *)
(* (src/src/week7.py): the author classifier, the citation counter, the    *)
(* bias phrase detector, the neutrality analyzer, the revision-series      *)
(* analyzer and the bias-pattern aggregator.                               *)
(*                                                                         *)
(* Python strings are TLA+ strings; the character at index i of s is       *)
(* SubSeq(s, i, i).  Python dicts are records, an absent key is a field    *)
(* outside DOMAIN.  Scores that the code keeps as floats are kept exactly: *)
(* neutrality_score in hundredths (1.0 is 100), bias_score as a fraction.  *)
(***************************************************************************)
EXTENDS Integers, Sequences, FiniteSets, TLC

VARIABLES
  text,                  \* the text handed to the leaf analyzers
  bias_result,           \* <<>> or <<the dict detect_biased_phrases returned>>
  neutrality_result,     \* <<>> or <<the dict analyze_neutrality_alignment returned>>
  citation_result,       \* <<>> or <<the int count_citations returned>>
  rev,                   \* the revision record handed to is_bot_revision
  bot_result,            \* <<>> or <<the outcome of is_bot_revision(rev)>>
  revs,                  \* the revision list handed to analyze_content_changes
  pc,                    \* where analyze_content_changes stands
  i,                     \* the number of revisions its loop has finished
  prev_size,             \* its locals: None or <<value>>
  prev_citations,
  prev_bias_count,
  prev_neutrality_score,
  content_analysis,      \* the dict it builds and returns
  outcome,               \* <<>> or <<what the call returned or raised>>
  run,                   \* 1 for the first call on revs, 2 for the second
  first_outcome,         \* the outcome of the first call, once it has ended
  page_title,            \* the title handed to detect_bias_patterns
  indicators,            \* <<>> or <<the list detect_bias_patterns returned>>
  pages,                 \* the titles search_pages found, each with the revisions
                         \* fetch_revisions_for_page returns for it
  title_index,           \* the number of titles the loop of analyze_topic_bias has finished
  topic_analysis,        \* the dict analyze_topic_bias builds, None before
  topic_pc,              \* where analyze_topic_bias stands
  api_pc,                \* where analyze_content_changes of week7_api.py stands
  api_i,                 \* the number of revisions its loop has finished
  api_prev_size,         \* its locals: None or <<value>>
  api_prev_citations,
  api_analysis,          \* the dict it builds and returns
  api_outcome            \* <<>> or <<what the call returned or raised>>

leaf_vars   == <<text, bias_result, neutrality_result, citation_result>>
bot_vars    == <<rev, bot_result>>
locals      == <<prev_size, prev_citations, prev_bias_count, prev_neutrality_score>>
series_vars == <<revs, pc, i, locals, content_analysis, outcome, run, first_outcome,
                 page_title, indicators>>

topic_vars  == <<pages, title_index, topic_analysis, topic_pc>>
api_vars    == <<api_pc, api_i, api_prev_size, api_prev_citations, api_analysis, api_outcome>>

vars == <<leaf_vars, bot_vars, series_vars, topic_vars, api_vars>>

-----------------------------------------------------------------------------
(* Integer helpers *)

Max(a, b) == IF a >= b THEN a ELSE b
Min(a, b) == IF a <= b THEN a ELSE b
SetMin(S) == CHOOSE m \in S : \A x \in S : m <= x
SetMax(S) == CHOOSE m \in S : \A x \in S : m >= x

-----------------------------------------------------------------------------
(* Characters and strings, as Python's str and re see them (ASCII). *)

UpperChars == <<"A","B","C","D","E","F","G","H","I","J","K","L","M",
                "N","O","P","Q","R","S","T","U","V","W","X","Y","Z">>
LowerChars == <<"a","b","c","d","e","f","g","h","i","j","k","l","m",
                "n","o","p","q","r","s","t","u","v","w","x","y","z">>
DigitChars == {"0","1","2","3","4","5","6","7","8","9"}

UpperSet == {UpperChars[k] : k \in 1..26}
LowerSet == {LowerChars[k] : k \in 1..26}

\* str.lower() of one character
LowerChar(c) ==
  IF c \in UpperSet
    THEN LowerChars[CHOOSE k \in 1..26 : UpperChars[k] = c]
    ELSE c

CharAt(s, k) == SubSeq(s, k, k)

\* str.lower()
RECURSIVE lower(_)
lower(s) ==
  IF Len(s) = 0 THEN s
  ELSE IF Len(s) = 1 THEN LowerChar(s)
  ELSE LET h == Len(s) \div 2
       IN  lower(SubSeq(s, 1, h)) \o lower(SubSeq(s, h + 1, Len(s)))

\* Python's  sub in s
Contains(s, sub) ==
  \E p \in 1..(Len(s) - Len(sub) + 1) : SubSeq(s, p, p + Len(sub) - 1) = sub

\* the regex classes \w and \s
IsWordChar(c) == c \in UpperSet \/ c \in LowerSet \/ c \in DigitChars \/ c = "_"
IsSpaceChar(c) == c \in {" ", "\t", "\n", "\r"}

-----------------------------------------------------------------------------
(* Python values that may be None: None is <<>>, any other value v is <<v>>. *)
(* A dict is a function from its keys; dict.get(key, default) is get.        *)

None == <<>>
Some(v) == <<v>>
EmptyDict == <<>>

get(d, key, default) == IF key \in DOMAIN d THEN d[key] ELSE Some(default)

\* dict.get(key)
get_or_none(d, key) == IF key \in DOMAIN d THEN d[key] ELSE None

\* the truth value of an optional string or list
Truthy(v) == v # None /\ Len(v[1]) > 0

\* Python's  a or b  on optional strings
Or(a, b) == IF Truthy(a) THEN a ELSE b

\* what a call returns, or the exception it raises
Return(v) == [exc |-> "", ret |-> v]
Raise(e)  == [exc |-> e, ret |-> FALSE]

-----------------------------------------------------------------------------
(* is_bot_revision *)

bot_indicators == <<"bot", "automated", "script", "maintenance">>

\* a faulty variant: the user taken without the  or ""  fallback
user_of_no_fallback(r) == get(r, "user", "")

\* user = rev.get("user", "") or ""
user_of(r) ==
  LET user == get(r, "user", "")
  IN  IF Truthy(user) THEN user ELSE Some("")

\* flags and "bot" in flags.lower()
flags_say_bot(r) ==
  LET flags == get(r, "flags", "")
  IN  Truthy(flags) /\ Contains(lower(flags[1]), "bot")

\* isinstance(tags, list) and any("bot" in t.lower() for t in tags)
tags_say_bot(r) ==
  LET tags == get(r, "tags", <<>>)
  IN  tags # None /\ \E k \in 1..Len(tags[1]) : Contains(lower(tags[1][k]), "bot")

is_bot_revision(r) ==
  IF flags_say_bot(r) THEN Return(TRUE)
  ELSE IF tags_say_bot(r) THEN Return(TRUE)
  ELSE LET user == user_of(r)
       IN  IF user = None THEN Raise("AttributeError")   \* None has no lower()
           ELSE LET uname == lower(user[1])
                IN  IF \E k \in 1..Len(bot_indicators) : Contains(uname, bot_indicators[k])
                      THEN Return(TRUE)
                      ELSE Return(FALSE)

-----------------------------------------------------------------------------
(* The regular expressions of the module, and re's matching of them.       *)
(* A pattern is a sequence of elements: \b, a group of literal             *)
(* alternatives, \s+, \w+ or [^>]*.  All patterns are compiled with        *)
(* re.IGNORECASE: literals are written in lower case and compared with the *)
(* lower-cased characters of the text.                                     *)

B      == [t |-> "b",   a |-> <<>>]
SP     == [t |-> "sp",  a |-> <<>>]
WP     == [t |-> "wp",  a |-> <<>>]
NGT    == [t |-> "ngt", a |-> <<>>]
Alt(a) == [t |-> "alt", a |-> a]

BIAS_PATTERNS ==
  <<
    [category |-> "loaded_language", patterns |-> <<
       <<B, Alt(<<"clearly", "obviously", "undoubtedly", "certainly", "definitely", "undeniably">>), B>>,
       <<B, Alt(<<"should", "must", "ought to", "need to">>), SP, Alt(<<"always", "never", "only">>)>>,
       <<B, Alt(<<"terrible", "awful", "horrible", "disastrous", "catastrophic">>), B>>,
       <<B, Alt(<<"amazing", "incredible", "fantastic", "brilliant", "perfect">>), B>>,
       <<B, Alt(<<"controversial", "disputed", "questionable", "dubious">>), B>>
    >>],
    [category |-> "opinionated", patterns |-> <<
       <<B, Alt(<<"i", "we", "our", "us">>), SP, Alt(<<"believe", "think", "feel", "argue", "claim", "assert">>), B>>,
       <<B, Alt(<<"many", "most", "some">>), SP, Alt(<<"people", "experts", "scientists">>), SP, Alt(<<"believe", "think", "argue">>), B>>,
       <<B, Alt(<<"it is", "it's">>), SP, Alt(<<"widely", "commonly", "generally">>), SP, Alt(<<"believed", "thought", "accepted">>), B>>
    >>],
    [category |-> "unbalanced", patterns |-> <<
       <<B, Alt(<<"only", "merely", "just", "simply">>), SP, Alt(<<"because", "due to", "as a result of">>)>>,
       <<B, Alt(<<"without", "lacking", "missing">>), SP, Alt(<<"any", "adequate", "sufficient", "proper">>), SP, Alt(<<"evidence", "proof", "support">>)>>,
       <<B, Alt(<<"completely", "totally", "entirely">>), SP, Alt(<<"wrong", "incorrect", "false", "untrue">>)>>
    >>],
    [category |-> "political", patterns |-> <<
       <<B, Alt(<<"left-wing", "right-wing", "liberal", "conservative", "progressive", "reactionary">>), B>>,
       <<B, Alt(<<"radical", "extremist", "fringe", "mainstream">>), SP, Alt(<<"view", "position", "stance">>)>>,
       <<B, Alt(<<"propaganda", "agenda", "ideology", "doctrine">>), B>>
    >>]
  >>

NEUTRALITY_PATTERNS ==
  [
    strong_claims |->
       <<B, Alt(<<"proves", "demonstrates", "shows", "indicates">>), SP, WP>>,
    counterpoints |->
       <<B, Alt(<<"however", "although", "though", "while", "some", "critics", "opponents", "but", "alternatively", "conversely", "on the other hand", "nevertheless", "yet">>), B>>,
    loaded_terms |->
       <<B, Alt(<<"clearly", "obviously", "undoubtedly", "certainly", "definitely">>), B>>,
    pov_indicators |->
       <<B, Alt(<<"we", "our", "us", "i">>), SP, Alt(<<"believe", "think", "feel", "argue", "claim">>), B>>,
    one_sided |-> <<
       <<B, Alt(<<"always", "never", "all", "every", "none", "no one">>), SP, Alt(<<"agrees", "supports", "believes">>)>>,
       <<B, Alt(<<"universally", "widely", "generally">>), SP, Alt(<<"accepted", "agreed", "recognized">>), SP, Alt(<<"without", "with no">>)>>,
       <<B, Alt(<<"no", "little", "minimal">>), SP, Alt(<<"evidence", "support", "proof">>), SP, Alt(<<"for", "against">>)>>
    >>
  ]

CITATION_PATTERN == <<Alt(<<"<ref">>), NGT, Alt(<<">">>)>>

InClass(t, c) ==
  CASE t = "sp"  -> IsSpaceChar(c)
    [] t = "wp"  -> IsWordChar(c)
    [] t = "ngt" -> c # ">"

\* \b at position p: exactly one of the characters p-1 and p is a word character
AtBoundary(s, p) ==
  LET before == p > 1 /\ IsWordChar(CharAt(s, p - 1))
      after  == p <= Len(s) /\ IsWordChar(CharAt(s, p))
  IN  before # after

\* a faulty variant: the patterns compiled without re.IGNORECASE
LitAt_case_sensitive(s, p, w) ==
  p + Len(w) - 1 <= Len(s) /\ SubSeq(s, p, p + Len(w) - 1) = w

\* the literal w (written in lower case) stands at position p of s, in any case
LitAt(s, p, w) ==
  /\ p + Len(w) - 1 <= Len(s)
  /\ LowerChar(CharAt(s, p)) = CharAt(w, 1)
  /\ lower(SubSeq(s, p, p + Len(w) - 1)) = w

\* the length of the longest run of characters of class t that starts at p
RunLen(s, p, t) ==
  LET stops == {j \in p..Len(s) : ~InClass(t, CharAt(s, j))}
  IN  IF stops = {} THEN Len(s) - p + 1 ELSE SetMin(stops) - p

\* re's backtracking match of the elements k.. of pat at position p of s:
\* the position after the match, or 0 when there is none.  Alternatives are
\* tried in order, quantified classes are greedy.
RECURSIVE MatchFrom(_, _, _, _)
MatchFrom(pat, k, s, p) ==
  IF k > Len(pat) THEN p
  ELSE LET e == pat[k] IN
    CASE e.t = "b" ->
           IF AtBoundary(s, p) THEN MatchFrom(pat, k + 1, s, p) ELSE 0
      [] e.t = "alt" ->
           LET ok == {j \in 1..Len(e.a) :
                        /\ LitAt(s, p, e.a[j])
                        /\ MatchFrom(pat, k + 1, s, p + Len(e.a[j])) # 0}
           IN  IF ok = {} THEN 0
               ELSE MatchFrom(pat, k + 1, s, p + Len(e.a[SetMin(ok)]))
      [] OTHER ->
           LET lo == IF e.t = "ngt" THEN 0 ELSE 1
               hi == RunLen(s, p, e.t)
               ok == {n \in lo..hi : MatchFrom(pat, k + 1, s, p + n) # 0}
           IN  IF ok = {} THEN 0
               ELSE MatchFrom(pat, k + 1, s, p + SetMax(ok))

\* the positions of s at which pat matches
MatchStarts(pat, s) == {p \in 1..Len(s) : MatchFrom(pat, 1, s, p) # 0}

\* the leftmost non-overlapping matches from position from on
RECURSIVE Scan(_, _, _, _)
Scan(pat, s, starts, from) ==
  LET c == {p \in starts : p >= from}
  IN  IF c = {} THEN <<>>
      ELSE LET p == SetMin(c)
           IN  <<[start |-> p, end |-> MatchFrom(pat, 1, s, p)]>>
                 \o Scan(pat, s, starts, MatchFrom(pat, 1, s, p))

\* pattern.finditer(s): the matches in text order, [start, end) 1-based
finditer(pat, s) == Scan(pat, s, MatchStarts(pat, s), 1)

\* len(pattern.findall(s))
findall_len(pat, s) == Len(finditer(pat, s))

\* pattern.search(s) is not None
search(pat, s) == MatchStarts(pat, s) # {}

\* str.strip()
strip(s) ==
  LET keep == {j \in 1..Len(s) : ~IsSpaceChar(CharAt(s, j))}
  IN  IF keep = {} THEN "" ELSE SubSeq(s, SetMin(keep), SetMax(keep))

-----------------------------------------------------------------------------
(* count_citations *)

count_citations(t) ==
  IF t = "" THEN 0
  ELSE findall_len(CITATION_PATTERN, t)

-----------------------------------------------------------------------------
(* detect_biased_phrases *)

\* the matches of one pattern, as the dicts appended to biased_phrases
PhrasesOf(category, pat, t) ==
  LET ms == finditer(pat, t)
  IN  [k \in 1..Len(ms) |->
         LET start == Max(0, (ms[k].start - 1) - 50)
             end   == Min(Len(t), (ms[k].end - 1) + 50)
         IN  [category |-> category,
              phrase   |-> SubSeq(t, ms[k].start, ms[k].end - 1),
              context  |-> strip(SubSeq(t, start + 1, end))]]

\* the loop over the patterns pi.. of one category
RECURSIVE PatternLoop(_, _, _, _)
PatternLoop(category, pats, pi, t) ==
  IF pi > Len(pats) THEN <<>>
  ELSE PhrasesOf(category, pats[pi], t) \o PatternLoop(category, pats, pi + 1, t)

\* the loop over the categories ci.. of BIAS_PATTERNS
RECURSIVE CategoryLoop(_, _)
CategoryLoop(ci, t) ==
  IF ci > Len(BIAS_PATTERNS) THEN <<>>
  ELSE PatternLoop(BIAS_PATTERNS[ci].category, BIAS_PATTERNS[ci].patterns, 1, t)
         \o CategoryLoop(ci + 1, t)

PHRASE_LIMIT == 10
PER_CHARS == 1000

\* a faulty variant: the count per thousand characters, for short texts too
bias_score_unclamped(bias_count, text_length) ==
  IF text_length > 0
    THEN [n |-> bias_count * PER_CHARS, d |-> text_length]
    ELSE [n |-> 0, d |-> 1]

\* (bias_count / max(text_length / 1000, 1)) if text_length > 0 else 0,
\* as the fraction n/d
bias_score_of(bias_count, text_length) ==
  IF text_length > 0
    THEN [n |-> bias_count * PER_CHARS, d |-> Max(text_length, PER_CHARS)]
    ELSE [n |-> 0, d |-> 1]

\* a faulty variant: the last ten matches are kept
limit_phrases_last(biased_phrases) ==
  SubSeq(biased_phrases, Max(1, Len(biased_phrases) - PHRASE_LIMIT + 1), Len(biased_phrases))

\* biased_phrases[:10]
limit_phrases(biased_phrases) ==
  SubSeq(biased_phrases, 1, Min(PHRASE_LIMIT, Len(biased_phrases)))

detect_biased_phrases(t) ==
  IF t = "" THEN [bias_score |-> [n |-> 0, d |-> 1], biased_phrases |-> <<>>, bias_count |-> 0]
  ELSE LET all == CategoryLoop(1, t)
           bias_count == Len(all)
           text_length == Len(t)
       IN  [bias_score     |-> bias_score_of(bias_count, text_length),
            biased_phrases |-> limit_phrases(all),
            bias_count     |-> bias_count]

-----------------------------------------------------------------------------
(* analyze_neutrality_alignment.  neutrality_score is kept in hundredths:  *)
(* the weights 0.25, 0.15, 0.10 are 25, 15, 10 and the thresholds 0.85,    *)
(* 0.65 are 85, 65.                                                        *)

\* violations.append(v); violation_count += 1
AddViolation(st, v) ==
  [violations |-> Append(st.violations, v),
   violation_count |-> st.violation_count + 1]

Violation(type, description, severity) ==
  [type |-> type, description |-> description, severity |-> severity]

HIGH_WEIGHT   == 25
MEDIUM_WEIGHT == 15
LOW_WEIGHT    == 10

\* a faulty variant: every violation weighs the same
score_reduction_flat(violations) == MEDIUM_WEIGHT * Len(violations)

\* the loop  for violation in violations: score_reduction += ...
RECURSIVE score_reduction(_)
score_reduction(violations) ==
  IF violations = <<>> THEN 0
  ELSE score_reduction(SubSeq(violations, 1, Len(violations) - 1))
       + (LET violation == violations[Len(violations)]
          IN  IF violation.severity = "high" THEN HIGH_WEIGHT
              ELSE IF violation.severity = "medium" THEN MEDIUM_WEIGHT
              ELSE LOW_WEIGHT)

GOOD_THRESHOLD     == 85
MODERATE_THRESHOLD == 65

\* a faulty variant: the thresholds taken as exclusive
compliance_of_strict(neutrality_score) ==
  IF neutrality_score > GOOD_THRESHOLD THEN "good"
  ELSE IF neutrality_score > MODERATE_THRESHOLD THEN "moderate"
  ELSE "poor"

\* the compliance level of a score
compliance_of(neutrality_score) ==
  IF neutrality_score >= GOOD_THRESHOLD THEN "good"
  ELSE IF neutrality_score >= MODERATE_THRESHOLD THEN "moderate"
  ELSE "poor"

\* a faulty variant: only the absence of any counterpoint is a violation
CheckCounterpoints_none_only(st, t) ==
  IF findall_len(NEUTRALITY_PATTERNS.strong_claims, t) >= 3
     /\ findall_len(NEUTRALITY_PATTERNS.counterpoints, t) = 0
    THEN AddViolation(st, Violation("missing_counterpoints",
           <<"strong claims but no counterpoint indicators",
             findall_len(NEUTRALITY_PATTERNS.strong_claims, t), 0>>, "medium"))
    ELSE st

\* the missing-counterpoints check
CheckCounterpoints(st, t) ==
  LET strong_claims == findall_len(NEUTRALITY_PATTERNS.strong_claims, t)
      counterpoint_indicators == findall_len(NEUTRALITY_PATTERNS.counterpoints, t)
  IN  IF strong_claims >= 3
        THEN IF counterpoint_indicators = 0
               THEN AddViolation(st, Violation("missing_counterpoints",
                      <<"strong claims but no counterpoint indicators", strong_claims, 0>>,
                      "medium"))
             ELSE IF counterpoint_indicators * 10 < strong_claims * 3
               THEN AddViolation(st, Violation("missing_counterpoints",
                      <<"strong claims but only counterpoint indicators",
                        strong_claims, counterpoint_indicators>>,
                      "medium"))
             ELSE st
        ELSE st

\* a faulty variant: the loop has no break, every pattern found adds a violation
RECURSIVE AddOneSided(_, _, _)
AddOneSided(st, t, k) ==
  IF k = 0 THEN st
  ELSE LET before == AddOneSided(st, t, k - 1)
       IN  IF search(NEUTRALITY_PATTERNS.one_sided[k], t)
             THEN AddViolation(before, Violation("one_sided_argument",
                    <<"one-sided argument indicators", 0, 0>>, "medium"))
             ELSE before

CheckOneSided_every_pattern(st, t) ==
  AddOneSided(st, t, Len(NEUTRALITY_PATTERNS.one_sided))

\* the one-sided check: the first pattern that is found ends the loop
CheckOneSided(st, t) ==
  IF \E k \in 1..Len(NEUTRALITY_PATTERNS.one_sided) :
       search(NEUTRALITY_PATTERNS.one_sided[k], t)
    THEN AddViolation(st, Violation("one_sided_argument",
           <<"one-sided argument indicators", 0, 0>>, "medium"))
    ELSE st

SHORT_TEXT == 200

\* a faulty variant: two loaded terms are too many in a text of any length
CheckLoaded_any_length(st, t) ==
  IF findall_len(NEUTRALITY_PATTERNS.loaded_terms, t) > 1
    THEN AddViolation(st, Violation("excessive_loaded_language",
           <<"instances of loaded language",
             findall_len(NEUTRALITY_PATTERNS.loaded_terms, t), 0>>, "low"))
    ELSE st

\* the loaded-language check
CheckLoaded(st, t) ==
  LET loaded_terms == findall_len(NEUTRALITY_PATTERNS.loaded_terms, t)
  IN  IF loaded_terms > 3
        THEN AddViolation(st, Violation("excessive_loaded_language",
               <<"instances of loaded language", loaded_terms, 0>>, "low"))
      ELSE IF loaded_terms > 1 /\ Len(t) < SHORT_TEXT
        THEN AddViolation(st, Violation("excessive_loaded_language",
               <<"instances of loaded language in short text", loaded_terms, 0>>, "low"))
      ELSE st

\* a faulty variant: one violation for every first-person match
RECURSIVE AddPovTimes(_, _, _)
AddPovTimes(st, n, k) ==
  IF k = 0 THEN st
  ELSE AddPovTimes(AddViolation(st, Violation("first_person_pov",
         <<"first-person statements", n, 0>>, "high")), n, k - 1)

CheckPov_per_match(st, t) ==
  AddPovTimes(st, findall_len(NEUTRALITY_PATTERNS.pov_indicators, t),
              findall_len(NEUTRALITY_PATTERNS.pov_indicators, t))

\* the first-person check
CheckPov(st, t) ==
  LET pov_indicators == findall_len(NEUTRALITY_PATTERNS.pov_indicators, t)
  IN  IF pov_indicators > 0
        THEN AddViolation(st, Violation("first_person_pov",
               <<"first-person statements", pov_indicators, 0>>, "high"))
        ELSE st

\* a faulty variant: an empty text scored as not neutral at all
empty_text_neutrality_zero ==
  [neutrality_score |-> 0, violations |-> <<>>, compliance |-> "poor"]

\* the dict returned for an empty text: it has no "violation_count" key
empty_text_neutrality ==
  [neutrality_score |-> 100, violations |-> <<>>, compliance |-> "good"]

analyze_neutrality_alignment(t) ==
  IF t = ""
    THEN empty_text_neutrality
    ELSE LET st == CheckPov(CheckLoaded(CheckOneSided(CheckCounterpoints(
                     [violations |-> <<>>, violation_count |-> 0], t), t), t), t)
             neutrality_score == Max(0, 100 - score_reduction(st.violations))
         IN  [neutrality_score |-> neutrality_score,
              violations |-> st.violations,
              compliance |-> compliance_of(neutrality_score),
              violation_count |-> st.violation_count]

-----------------------------------------------------------------------------
(* analyze_content_changes *)

\* content_analysis as the function creates it
new_content_analysis ==
  [size_changes |-> <<>>,
   citation_changes |-> <<>>,
   edit_frequency |-> EmptyDict,          \* defaultdict(int)
   content_amplification |-> <<>>,
   bias_indicators |-> <<>>,
   bias_phrase_analysis |-> <<>>,
   neutrality_analysis |-> <<>>]

\* a faulty variant: the count is set, not incremented
default_increment_set(d, key) == d @@ (key :> 1)

\* defaultdict(int):  d[key] += 1
default_increment(d, key) ==
  IF key \in DOMAIN d THEN [d EXCEPT ![key] = @ + 1] ELSE d @@ (key :> 1)

\* a faulty variant: the revision's own fields come first
rev_content_of_top_first(r) ==
  LET top == Or(Or(get_or_none(r, "content"), get_or_none(r, "*")), Some(""))
      slots == get_or_none(r, "slots")
      nested ==
        IF slots # None
          THEN LET main == get(slots[1], "main", EmptyDict)
               IN  Or(get(main[1], "content", ""), get(main[1], "*", ""))
          ELSE Some("")
  IN  IF Truthy(top) THEN top[1]
      ELSE IF Truthy(nested) THEN nested[1] ELSE ""

\* the content of a revision: the main slot's "content", else its "*", else
\* the revision's own "content", else its "*", else ""
rev_content_of(r) ==
  LET slots == get_or_none(r, "slots")
      nested ==
        IF slots # None
          THEN LET main == get(slots[1], "main", EmptyDict)
               IN  Or(get(main[1], "content", ""), get(main[1], "*", ""))
          ELSE Some("")
  IN  IF ~Truthy(nested)
        THEN Or(Or(get_or_none(r, "content"), get_or_none(r, "*")), Some(""))[1]
        ELSE nested[1]

\* prev_size or 0
or_zero(prev) == IF prev = None THEN 0 ELSE prev[1]

AMPLIFY_NUM == 3
AMPLIFY_DEN == 2

\* a faulty variant: the first revision has nothing to be compared with
amplifies_after_first(current_size, prev) ==
  prev # None /\ current_size * AMPLIFY_DEN > prev[1] * AMPLIFY_NUM

\* current_size > (prev_size or 0) * 1.5
amplifies(current_size, prev) ==
  current_size * AMPLIFY_DEN > or_zero(prev) * AMPLIFY_NUM

TOP_PHRASES == 3
TOP_VIOLATIONS == 2

\* list[:n]
Take(l, n) == SubSeq(l, 1, Min(n, Len(l)))

\* the texts the revisions of a series carry
TextPlain == "The study found a rise over the decade. "
TextCited == "The study found a rise. <ref>x</ref> Clearly we believe it. "
TextLong  == "This proves that. It Demonstrates this. Data shows warming. <REF name=a>y</ref> "
               \o "Clearly this is obviously and certainly right, critics aside. <ref>z</ref>"
TextSlanted == "We think no one agrees. "
SeriesTexts == {"", TextPlain, TextCited, TextLong, TextSlanted}

\* what the three analyzers return for the text t
Analyzers(t) ==
  [citations  |-> count_citations(t),
   bias       |-> detect_biased_phrases(t),
   neutrality |-> analyze_neutrality_alignment(t)]

\* the same, worked out once for the texts of the series
Tabulated == [t \in SeriesTexts |-> Analyzers(t)] @@ <<>>

Analysis(t) == IF t \in DOMAIN Tabulated THEN Tabulated[t] ELSE Analyzers(t)

\* a faulty variant: the value of the first revision is kept
assign_prev_once(prev, current) == IF prev = None THEN Some(current) ELSE prev

\* prev_size = current_size, and the like for the other three locals
assign_prev(prev, current) == Some(current)

\* One pass of the loop over revs, for the revision r, from the locals and the
\* dict L holds.  The result holds them after the pass, and in exc the
\* exception that ended it, if one did.
Pass(L, r, rev_content, bot, analysis) ==
  LET common == [rev_id |-> get_or_none(r, "revid"),
                 timestamp |-> get_or_none(r, "timestamp"),
                 is_bot |-> bot.ret,
                 user |-> get(r, "user", "Unknown")]
      ca0 == L.content_analysis
      current_size == Len(rev_content)
      ca1 == IF L.prev_size # None
               THEN [ca0 EXCEPT !.size_changes = Append(@,
                       common @@ [size_delta |-> current_size - L.prev_size[1]])]
               ELSE ca0
      current_citations == analysis.citations
      ca2 == IF L.prev_citations # None
               THEN [ca1 EXCEPT !.citation_changes = Append(@,
                       common @@ [citation_delta |-> current_citations - L.prev_citations[1]])]
               ELSE ca1
      bias_analysis == analysis.bias
      current_bias_count == bias_analysis.bias_count
      ca3 == IF L.prev_bias_count # None
               THEN [ca2 EXCEPT !.bias_phrase_analysis = Append(@,
                       common @@ [bias_count |-> current_bias_count,
                                  bias_score |-> bias_analysis.bias_score,
                                  bias_delta |-> current_bias_count - L.prev_bias_count[1],
                                  biased_phrases |-> Take(bias_analysis.biased_phrases, TOP_PHRASES)])]
               ELSE ca2
      neutrality_analysis == analysis.neutrality
      current_neutrality_score == neutrality_analysis.neutrality_score
      key_error == L.prev_neutrality_score # None
                   /\ "violation_count" \notin DOMAIN neutrality_analysis
      ca4 == IF L.prev_neutrality_score # None
               THEN [ca3 EXCEPT !.neutrality_analysis = Append(@,
                       common @@ [neutrality_score |-> current_neutrality_score,
                                  neutrality_delta |-> current_neutrality_score
                                                         - L.prev_neutrality_score[1],
                                  compliance |-> neutrality_analysis.compliance,
                                  violation_count |-> neutrality_analysis.violation_count,
                                  violations |-> Take(neutrality_analysis.violations, TOP_VIOLATIONS)])]
               ELSE ca3
      user_type == IF bot.ret THEN "bot" ELSE "human"
      ca5 == [ca4 EXCEPT !.edit_frequency = default_increment(@, user_type)]
      ca6 == IF amplifies(current_size, L.prev_size)
               THEN [ca5 EXCEPT !.content_amplification = Append(@,
                       common @@ [size_increase |-> current_size - or_zero(L.prev_size)])]
               ELSE ca5
  IN  IF bot.exc # ""
        THEN [L EXCEPT !.exc = bot.exc]
      ELSE IF key_error
        THEN [L EXCEPT !.exc = "KeyError",              \* neutrality_analysis["violation_count"]
                       !.content_analysis = ca3,
                       !.prev_bias_count = assign_prev(@, current_bias_count)]
      ELSE [exc |-> "",
            prev_size |-> assign_prev(L.prev_size, current_size),
            prev_citations |-> assign_prev(L.prev_citations, current_citations),
            prev_bias_count |-> assign_prev(L.prev_bias_count, current_bias_count),
            prev_neutrality_score |-> assign_prev(L.prev_neutrality_score,
                                                  current_neutrality_score),
            content_analysis |-> ca6]

\* the pass for r: its content, its author's kind, its content's analyses
LoopBody(L, r) ==
  Pass(L, r, rev_content_of(r), is_bot_revision(r), Analysis(rev_content_of(r)))

-----------------------------------------------------------------------------
(* Fractions, for the values the code keeps as floats.  A comparison of two *)
(* floats is the comparison of the exact values unless the exact values are *)
(* equal and the floats carry rounding errors: then either outcome is taken *)
(* (the caller's tie argument).                                             *)

RECURSIVE GCD(_, _)
GCD(a, b) == IF b = 0 THEN a ELSE GCD(b, a % b)

Abs(x) == IF x < 0 THEN -x ELSE x

Frac(n, d) ==
  LET g == GCD(Abs(n), d)
  IN  IF n = 0 THEN [n |-> 0, d |-> 1] ELSE [n |-> n \div g, d |-> d \div g]

FracAdd(a, b)   == Frac(a.n * b.d + b.n * a.d, a.d * b.d)
FracSub(a, b)   == Frac(a.n * b.d - b.n * a.d, a.d * b.d)
FracAbs(a)      == [n |-> Abs(a.n), d |-> a.d]
FracDiv(a, k)   == Frac(a.n, a.d * k)
FracMul(a, n, d) == Frac(a.n * n, a.d * d)
FracLess(a, b)  == a.n * b.d < b.n * a.d

\* the value is a float exactly: its denominator is a power of two
IsPowerOfTwo(d) == \E k \in 0..30 : d = 2 ^ k
Dyadic(a) == IsPowerOfTwo(a.d)

\* a > b  on floats: exact says whether a and b are computed without rounding
FloatGreater(a, b, exact, tie) ==
  IF FracLess(b, a) THEN TRUE
  ELSE IF FracLess(a, b) THEN FALSE
  ELSE IF exact THEN FALSE
  ELSE tie

\* rounding may decide  a > b
AtTie(a, b, exact) == ~FracLess(b, a) /\ ~FracLess(a, b) /\ ~exact

RECURSIVE SumSeq(_)
SumSeq(l) == IF l = <<>> THEN 0 ELSE Head(l) + SumSeq(Tail(l))

RECURSIVE SumFrac(_)
SumFrac(l) == IF l = <<>> THEN Frac(0, 1) ELSE FracAdd(Head(l), SumFrac(Tail(l)))

\* [entry[key] for entry in l]
Column(l, key) == [k \in 1..Len(l) |-> l[k][key]]

\* [abs(entry[key]) for entry in l]
AbsColumn(l, key) == [k \in 1..Len(l) |-> Abs(l[k][key])]

\* [entry for entry in l if entry["is_bot"]], or the entries that are not
Authored(l, by_bot) ==
  LET Sel(c) == c.is_bot = by_bot
  IN  SelectSeq(l, Sel)

-----------------------------------------------------------------------------
(* detect_bias_patterns.  It returns the indicator list; reading            *)
(* edit_frequency["bot"] on the defaultdict adds the key when it is absent, *)
(* so the dict handed in is part of the result.                             *)

\* defaultdict(int):  reading d[key]  leaves the key in d
default_read(d, key) == IF key \in DOMAIN d THEN d ELSE d @@ (key :> 0)

\* sum(d.values())
sum_values(d) == SumSeq([k \in 1..2 |-> IF <<"bot", "human">>[k] \in DOMAIN d
                                          THEN d[<<"bot", "human">>[k]] ELSE 0])

Indicator(type, description, severity) ==
  [type |-> type, description |-> description, severity |-> severity]

controversial_keywords ==
  <<"controversy", "debate", "dispute", "criticism", "opposition", "denial", "hesitancy">>
high_polarization_keywords ==
  <<"gun control", "abortion", "immigration", "vaccination", "climate change">>

\* any(keyword in page_title.lower() for keyword in keywords)
\* a faulty variant: the title is searched as it is written
title_has_case_sensitive(title, keywords) ==
  \E k \in 1..Len(keywords) : Contains(title, keywords[k])

\* any(keyword in page_title.lower() for keyword in keywords)
title_has(title, keywords) ==
  \E k \in 1..Len(keywords) : Contains(lower(title), keywords[k])

\* a faulty variant: the threshold itself counts as above
ratio_at_or_above(bot, total_edits, num, den) ==
  IF total_edits > 0 THEN bot * den >= num * total_edits ELSE FALSE

\* a faulty variant: with no edits the ratio counts as above every threshold
ratio_above_without_edits(bot, total_edits, num, den) ==
  IF total_edits > 0 THEN bot * den > num * total_edits ELSE TRUE

\* bot_ratio > num/den, for bot_ratio = bot / total_edits, or 0 with no edits
ratio_above(bot, total_edits, num, den) ==
  IF total_edits > 0 THEN bot * den > num * total_edits ELSE FALSE

\* high_bot_ratio: bot_ratio > 0.3; high above 0.6, medium above 0.4
CheckBotRatio(bot, total_edits) ==
  IF ratio_above(bot, total_edits, 3, 10)
    THEN <<Indicator("high_bot_ratio", <<"Significant bot edit ratio", bot, total_edits>>,
             IF ratio_above(bot, total_edits, 6, 10) THEN "high"
             ELSE IF ratio_above(bot, total_edits, 4, 10) THEN "medium"
             ELSE "low")>>
    ELSE <<>>

\* the mean citation_delta of the bot entries, or of the human ones
CitationAvg(ca, by_bot) ==
  LET l == Authored(ca.citation_changes, by_bot)
  IN  Frac(SumSeq(Column(l, "citation_delta")), Len(l))

CitationDiff(ca) == FracAbs(FracSub(CitationAvg(ca, TRUE), CitationAvg(ca, FALSE)))
CitationExact(ca) == Dyadic(CitationAvg(ca, TRUE)) /\ Dyadic(CitationAvg(ca, FALSE))

\* citation_bias: the bot and human mean citation_delta differ by more than 1
CheckCitations(ca, tie) ==
  LET bot_citation_changes == Authored(ca.citation_changes, TRUE)
      human_citation_changes == Authored(ca.citation_changes, FALSE)
      bot_avg == CitationAvg(ca, TRUE)
      human_avg == CitationAvg(ca, FALSE)
      diff == CitationDiff(ca)
      exact == CitationExact(ca)
  IN  IF bot_citation_changes # <<>> /\ human_citation_changes # <<>>
         /\ FloatGreater(diff, Frac(1, 1), exact, tie.citation)
        THEN <<Indicator("citation_bias", <<"different citation patterns", bot_avg, human_avg>>,
                 IF FloatGreater(diff, Frac(2, 1), exact, tie.citation) THEN "medium" ELSE "low")>>
        ELSE <<>>

\* a faulty variant: half of the amplifications is enough
CheckAmplification_at_half(ca) ==
  LET bot_amplifications == Authored(ca.content_amplification, TRUE)
      n_bot == Len(bot_amplifications)
      n_all == Len(ca.content_amplification)
  IN  IF n_bot * 2 >= n_all
        THEN <<Indicator("content_amplification_bias", <<"content amplifications", n_bot, n_all>>,
                 IF n_bot * 5 > n_all * 4 THEN "medium" ELSE "low")>>
        ELSE <<>>

\* content_amplification_bias: bots made more than half of the amplifications
CheckAmplification(ca) ==
  LET bot_amplifications == Authored(ca.content_amplification, TRUE)
      n_bot == Len(bot_amplifications)
      n_all == Len(ca.content_amplification)
  IN  IF n_bot * 2 > n_all
        THEN <<Indicator("content_amplification_bias", <<"content amplifications", n_bot, n_all>>,
                 IF n_bot * 5 > n_all * 4 THEN "medium" ELSE "low")>>
        ELSE <<>>

\* maintenance_bias: the bot mean |size_delta| is below half the human mean
CheckMaintenance(ca, ef) ==
  LET bot_size_changes == Authored(ca.size_changes, TRUE)
      human_size_changes == Authored(ca.size_changes, FALSE)
      bot_avg == Frac(SumSeq(AbsColumn(bot_size_changes, "size_delta")), Len(bot_size_changes))
      human_avg == Frac(SumSeq(AbsColumn(human_size_changes, "size_delta")), Len(human_size_changes))
  IN  IF ef["bot"] > 0
         /\ bot_size_changes # <<>> /\ human_size_changes # <<>>
         /\ FracLess(bot_avg, FracMul(human_avg, 1, 2))
        THEN <<Indicator("maintenance_bias", <<"smaller edits on average", bot_avg, human_avg>>, "low")>>
        ELSE <<>>

\* controversial_topic_bias: a controversial title and bot_ratio > 0.2
CheckControversial(title, bot, total_edits) ==
  IF title_has(title, controversial_keywords) /\ ratio_above(bot, total_edits, 2, 10)
    THEN <<Indicator("controversial_topic_bias", <<"controversial topic", bot, total_edits>>, "medium")>>
    ELSE <<>>

\* the mean bias_score of the bot entries, or of the human ones
BiasAvg(ca, by_bot) ==
  LET l == Authored(ca.bias_phrase_analysis, by_bot)
  IN  FracDiv(SumFrac(Column(l, "bias_score")), Len(l))

\* biased_language_bias / biased_language_correction: one group's mean
\* bias_score is more than 1.2 times the other's
CheckBiasLanguage(ca, tie) ==
  LET bot_bias_analysis == Authored(ca.bias_phrase_analysis, TRUE)
      human_bias_analysis == Authored(ca.bias_phrase_analysis, FALSE)
      bot_avg == BiasAvg(ca, TRUE)
      human_avg == BiasAvg(ca, FALSE)
  IN  IF bot_bias_analysis # <<>> /\ human_bias_analysis # <<>>
        THEN IF FloatGreater(bot_avg, FracMul(human_avg, 12, 10), human_avg.n = 0, tie.bias_bot)
               THEN <<Indicator("biased_language_bias", <<"bots more biased", bot_avg, human_avg>>,
                        IF FloatGreater(bot_avg, FracMul(human_avg, 15, 10),
                                        human_avg.n = 0, tie.bias_bot)
                          THEN "medium" ELSE "low")>>
             ELSE IF FloatGreater(human_avg, FracMul(bot_avg, 12, 10), bot_avg.n = 0, tie.bias_human)
               THEN <<Indicator("biased_language_correction",
                        <<"humans more biased", human_avg, bot_avg>>, "low")>>
             ELSE <<>>
        ELSE <<>>

\* the mean neutrality_score of the bot entries, or of the human ones
NeutralityAvg(ca, by_bot) ==
  LET l == Authored(ca.neutrality_analysis, by_bot)
  IN  Frac(SumSeq(Column(l, "neutrality_score")), 100 * Len(l))

\* a faulty variant: the difference keeps its sign
NeutralityDiff_signed(ca) ==
  FracSub(NeutralityAvg(ca, TRUE), NeutralityAvg(ca, FALSE))

\* abs(bot_avg_neutrality - human_avg_neutrality)
NeutralityDiff(ca) ==
  FracAbs(FracSub(NeutralityAvg(ca, TRUE), NeutralityAvg(ca, FALSE)))
NeutralityExact(ca) ==
  Dyadic(NeutralityAvg(ca, TRUE)) /\ Dyadic(NeutralityAvg(ca, FALSE))

\* neutrality_bias / neutrality_correction, and neutrality_violation_bias:
\* both are checked only when there are bot and human neutrality entries
CheckNeutrality(ca, tie) ==
  LET bot_neutrality == Authored(ca.neutrality_analysis, TRUE)
      human_neutrality == Authored(ca.neutrality_analysis, FALSE)
      bot_avg == NeutralityAvg(ca, TRUE)
      human_avg == NeutralityAvg(ca, FALSE)
      neutrality_diff == NeutralityDiff(ca)
      exact == NeutralityExact(ca)
      difference ==
        IF FloatGreater(neutrality_diff, Frac(15, 100), FALSE, tie.neutrality)
          THEN IF FracLess(bot_avg, human_avg)
                 THEN <<Indicator("neutrality_bias", <<"bots lower", bot_avg, human_avg>>,
                          IF FloatGreater(neutrality_diff, Frac(25, 100), exact, tie.neutrality)
                            THEN "high" ELSE "medium")>>
                 ELSE <<Indicator("neutrality_correction", <<"bots higher", bot_avg, human_avg>>,
                          "low")>>
          ELSE <<>>
      bot_violations == SumSeq(Column(bot_neutrality, "violation_count"))
      human_violations == SumSeq(Column(human_neutrality, "violation_count"))
      total_violations == bot_violations + human_violations
      violation ==
        IF (bot_violations > 0 \/ human_violations > 0)
           /\ bot_violations * 10 > total_violations * 6
          THEN <<Indicator("neutrality_violation_bias",
                   <<"neutrality violations", bot_violations, total_violations>>,
                   IF bot_violations * 10 > total_violations * 8 THEN "medium" ELSE "low")>>
          ELSE <<>>
  IN  IF bot_neutrality # <<>> /\ human_neutrality # <<>>
        THEN difference \o violation
        ELSE <<>>

\* perception_bias_risk: a polarized title and bot_ratio > 0.15
CheckPerception(title, bot, total_edits) ==
  IF title_has(title, high_polarization_keywords) /\ ratio_above(bot, total_edits, 15, 100)
    THEN <<Indicator("perception_bias_risk", <<"polarized topic", bot, total_edits>>, "low")>>
    ELSE <<>>

\* the outcomes of the float comparisons that rounding may decide
Ties == [citation : BOOLEAN, bias_bot : BOOLEAN, bias_human : BOOLEAN, neutrality : BOOLEAN]

\* the comparisons of detect_bias_patterns(ca, ...) that rounding may decide
Tied(ca) ==
  [citation   |-> \/ AtTie(CitationDiff(ca), Frac(1, 1), CitationExact(ca))
                  \/ AtTie(CitationDiff(ca), Frac(2, 1), CitationExact(ca)),
   bias_bot   |-> \E m \in {12, 15} :
                    AtTie(BiasAvg(ca, TRUE), FracMul(BiasAvg(ca, FALSE), m, 10),
                          BiasAvg(ca, FALSE).n = 0),
   bias_human |-> AtTie(BiasAvg(ca, FALSE), FracMul(BiasAvg(ca, TRUE), 12, 10),
                        BiasAvg(ca, TRUE).n = 0),
   neutrality |-> \/ AtTie(NeutralityDiff(ca), Frac(15, 100), FALSE)
                  \/ AtTie(NeutralityDiff(ca), Frac(25, 100), NeutralityExact(ca))]

\* the outcomes to consider for ca: a comparison that is not tied has one
TiesOf(ca) == {tie \in Ties : \A site \in DOMAIN tie : tie[site] => Tied(ca)[site]}

\* a faulty variant: the topic checks come before the content checks
detect_bias_patterns_title_first(ca, title, tie) ==
  LET total_edits == sum_values(ca.edit_frequency)
      ef1 == IF total_edits > 0 THEN default_read(ca.edit_frequency, "bot")
                                ELSE ca.edit_frequency
      bot == IF total_edits > 0 THEN ef1["bot"] ELSE 0
      ef2 == default_read(ef1, "bot")
  IN  [bias_indicators |->
         CheckBotRatio(bot, total_edits)
           \o CheckControversial(title, bot, total_edits)
           \o CheckPerception(title, bot, total_edits)
           \o CheckCitations(ca, tie)
           \o CheckAmplification(ca)
           \o CheckMaintenance(ca, ef2)
           \o CheckBiasLanguage(ca, tie)
           \o CheckNeutrality(ca, tie),
       content_analysis |-> [ca EXCEPT !.edit_frequency = ef2]]

detect_bias_patterns(ca, title, tie) ==
  LET total_edits == sum_values(ca.edit_frequency)
      \* edit_frequency["bot"] is read for bot_ratio only when there are edits
      ef1 == IF total_edits > 0 THEN default_read(ca.edit_frequency, "bot")
                                ELSE ca.edit_frequency
      bot == IF total_edits > 0 THEN ef1["bot"] ELSE 0
      \* and always for the edit frequency check
      ef2 == default_read(ef1, "bot")
  IN  [bias_indicators |->
         CheckBotRatio(bot, total_edits)
           \o CheckCitations(ca, tie)
           \o CheckAmplification(ca)
           \o CheckMaintenance(ca, ef2)
           \o CheckControversial(title, bot, total_edits)
           \o CheckBiasLanguage(ca, tie)
           \o CheckNeutrality(ca, tie)
           \o CheckPerception(title, bot, total_edits),
       content_analysis |-> [ca EXCEPT !.edit_frequency = ef2]]

-----------------------------------------------------------------------------
(* The texts the analyzers are run on: the concatenations of at most       *)
(* MaxChunks of the phrases below, taken in the order of the list.         *)

MaxChunks == 2

\* s repeated n times
RECURSIVE Repeat(_, _)
Repeat(s, n) ==
  IF n = 0 THEN ""
  ELSE IF n = 1 THEN s
  ELSE Repeat(s, n \div 2) \o Repeat(s, n - (n \div 2))

Chunks ==
  << "The study found a rise. ",
     "Clearly this is OBVIOUSLY right. ",
     "This proves that. It Demonstrates this. Data shows warming. ",
     "However, critics disagree. ",
     "We believe this. I think so. ",
     "Surely no one agrees, with little proof against it. ",
     "<ref name=\"a\">Src</ref> and <REF>x</Ref> ",
     "<references/> </ref> <ref ",
     "A liberal agenda is totally wrong, we must never yield. ",
     Repeat("filler... ", 20),
     Repeat("x", 1001),
     "But it indicates more. ",
     "Clearly awful propaganda: we think critics are totally wrong, obviously. ",
     "Certainly, definitely, undoubtedly and clearly so. ",
     "We feel that clearly and certainly no one supports it. " >>

RECURSIVE Concat(_)
Concat(cs) == IF cs = <<>> THEN "" ELSE Chunks[Head(cs)] \o Concat(Tail(cs))

ChunkSeqs ==
  {cs \in UNION {[1..n -> 1..Len(Chunks)] : n \in 0..MaxChunks} :
     \A k \in 1..(Len(cs) - 1) : cs[k] <= cs[k + 1]}

TextInputs == {Concat(cs) : cs \in ChunkSeqs}

-----------------------------------------------------------------------------
(* The leaf analyzers applied to one text, in the order in which           *)
(* analyze_content_changes calls them.                                     *)

NoRev == EmptyDict

\* the dict analyze_content_changes of week7_api.py creates
new_api_analysis ==
  [size_changes |-> <<>>,
   citation_changes |-> <<>>,
   edit_frequency |-> EmptyDict,          \* defaultdict(int)
   content_amplification |-> <<>>,
   bias_indicators |-> <<>>]

\* no call of analyze_content_changes of week7_api.py is under way
ApiIdle ==
  /\ api_pc = "idle"
  /\ api_i = 0
  /\ api_prev_size = None
  /\ api_prev_citations = None
  /\ api_analysis = new_api_analysis
  /\ api_outcome = <<>>

\* no call of analyze_topic_bias is under way
TopicIdle ==
  /\ pages = <<>>
  /\ title_index = 0
  /\ topic_analysis = None
  /\ topic_pc = "idle"

\* no call of analyze_content_changes or detect_bias_patterns is under way
SeriesIdle ==
  /\ revs = <<>>
  /\ pc = "idle"
  /\ i = 0
  /\ prev_size = None
  /\ prev_citations = None
  /\ prev_bias_count = None
  /\ prev_neutrality_score = None
  /\ content_analysis = EmptyDict
  /\ outcome = <<>>
  /\ run = 1
  /\ first_outcome = <<>>
  /\ page_title = ""
  /\ indicators = <<>>

InitText ==
  /\ text \in TextInputs
  /\ bias_result = <<>>
  /\ neutrality_result = <<>>
  /\ citation_result = <<>>
  /\ rev = NoRev
  /\ bot_result = <<>>
  /\ SeriesIdle
  /\ TopicIdle
  /\ ApiIdle

DetectBiasedPhrases ==
  /\ citation_result # <<>>
  /\ bias_result = <<>>
  /\ bias_result' = <<detect_biased_phrases(text)>>
  /\ UNCHANGED <<text, neutrality_result, citation_result, bot_vars, series_vars, topic_vars, api_vars>>

AnalyzeNeutralityAlignment ==
  /\ bias_result # <<>>
  /\ neutrality_result = <<>>
  /\ neutrality_result' = <<analyze_neutrality_alignment(text)>>
  /\ UNCHANGED <<text, bias_result, citation_result, bot_vars, series_vars, topic_vars, api_vars>>

CountCitations ==
  /\ citation_result = <<>>
  /\ citation_result' = <<count_citations(text)>>
  /\ UNCHANGED <<text, bias_result, neutrality_result, bot_vars, series_vars, topic_vars, api_vars>>

NextText == DetectBiasedPhrases \/ AnalyzeNeutralityAlignment \/ CountCitations

SpecText == InitText /\ [][NextText]_vars

-----------------------------------------------------------------------------
(* The author classifier applied to one revision record.  The records      *)
(* carry every combination of an absent, a None, an empty and a non-empty  *)
(* flags, tags and user field; tag lists hold at most MaxTags tags.        *)

MaxTags == 2

FlagValues == {None, Some(""), Some("bot"), Some("BOT"), Some("minor"), Some("minor robot")}
TagNames   == <<"mw-undo", "Bot", "mobile edit botched">>
TagLists   == UNION {[1..n -> {TagNames[k] : k \in 1..Len(TagNames)}] : n \in 0..MaxTags}
TagValues  == {None} \cup {Some(l) : l \in TagLists}
UserValues == {None, Some(""), Some("JohnDoe"), Some("SOMEBOT"), Some("AutomatedEditor"),
               Some("EditScript"), Some("Maintenance"), Some("Bo T"), Some("Scripps")}

Field(key, values) == {EmptyDict} \cup {[k \in {key} |-> v] : v \in values}

RevInputs ==
  {f @@ t @@ u : f \in Field("flags", FlagValues),
                 t \in Field("tags", TagValues),
                 u \in Field("user", UserValues)}

NoText == ""

InitBot ==
  /\ rev \in RevInputs
  /\ bot_result = <<>>
  /\ text = NoText
  /\ bias_result = <<>>
  /\ neutrality_result = <<>>
  /\ citation_result = <<>>
  /\ SeriesIdle
  /\ TopicIdle
  /\ ApiIdle

IsBotRevision ==
  /\ bot_result = <<>>
  /\ bot_result' = <<is_bot_revision(rev)>>
  /\ UNCHANGED <<rev, leaf_vars, series_vars, topic_vars, api_vars>>

NextBot == IsBotRevision

SpecBot == InitBot /\ [][NextBot]_vars

-----------------------------------------------------------------------------
(* analyze_content_changes run on a revision list, one pass of its loop at *)
(* a time, and detect_bias_patterns run on the dict it returned.           *)

MaxRevs == 3

\* where a revision may carry its content
ContentDicts ==
  { [slots |-> Some([main |-> Some([content |-> Some(TextPlain)])])],
    [slots |-> Some([main |-> Some(("*" :> Some(TextCited)))]), content |-> Some(TextPlain)],
    [slots |-> Some([main |-> Some([content |-> Some("")])])] @@ ("*" :> Some(TextLong)),
    [content |-> None, slots |-> Some(EmptyDict)] }

\* who made it
AuthorDicts ==
  { [user |-> Some("Alice"), flags |-> Some(""), tags |-> Some(<<>>)],
    [user |-> Some("CleanupBot"), flags |-> Some("bot"), tags |-> Some(<<"bot">>)] }

SeriesRevs == {c @@ a : c \in ContentDicts, a \in AuthorDicts}

SeqsUpTo(S, n) == UNION {[1..k -> S] : k \in 0..n}

\* the revisions numbered and stamped in their order
Numbered(rs) == [k \in 1..Len(rs) |-> rs[k] @@ [revid |-> Some(k), timestamp |-> Some(k)]]

Titles ==
  {"History of tea", "Climate change denial", "Vaccination Debate",
   "Vaccine HESITANCY", "Gun Control"}

\* series where only the authors differ: bot revisions, then human ones
MaxEdits == 20

PlainRev(author) ==
  [slots |-> Some([main |-> Some([content |-> Some(TextPlain)])])] @@ author

BotAuthor   == [user |-> Some("CleanupBot"), flags |-> Some("bot"), tags |-> Some(<<"bot">>)]
HumanAuthor == [user |-> Some("Alice"), flags |-> Some(""), tags |-> Some(<<>>)]

\* a revision with the text t in its main slot
TextRev(t, author) ==
  [slots |-> Some([main |-> Some([content |-> Some(t)])])] @@ author

\* series of three revisions where a bot and a human each bring a text,
\* after a first revision by a human or a shorter one by a bot
MixedRuns ==
  UNION { { <<first, TextRev(a, BotAuthor), TextRev(b, HumanAuthor)>>,
            <<first, TextRev(a, HumanAuthor), TextRev(b, BotAuthor)>> }
          : a \in SeriesTexts \ {""}, b \in SeriesTexts \ {""},
            first \in {PlainRev(HumanAuthor), TextRev(TextSlanted, BotAuthor)} }

AuthorRuns ==
  { [k \in 1..(b + h) |-> PlainRev(IF k <= b THEN BotAuthor ELSE HumanAuthor)] :
      b \in 0..MaxEdits, h \in 0..MaxEdits }

SeriesInputs ==
  {Numbered(rs) : rs \in SeqsUpTo(SeriesRevs, MaxRevs)
                          \cup {rs \in AuthorRuns : Len(rs) <= MaxEdits}
                          \cup MixedRuns}

\* a faulty variant: the dict of an earlier call is the one the next call fills
Entry_shared_dict(left) ==
  [prev_size |-> None, prev_citations |-> None, prev_bias_count |-> None,
   prev_neutrality_score |-> None, content_analysis |-> left.content_analysis]

\* what a call of analyze_content_changes starts from, whatever an earlier
\* call left behind: a new dict, and locals that are None
Entry(left) ==
  [prev_size |-> None, prev_citations |-> None, prev_bias_count |-> None,
   prev_neutrality_score |-> None, content_analysis |-> new_content_analysis]

\* before the first call nothing is left behind
NoCallYet ==
  [prev_size |-> None, prev_citations |-> None, prev_bias_count |-> None,
   prev_neutrality_score |-> None, content_analysis |-> new_content_analysis]

\* the locals and the dict as they stand
Current ==
  [prev_size |-> prev_size, prev_citations |-> prev_citations,
   prev_bias_count |-> prev_bias_count, prev_neutrality_score |-> prev_neutrality_score,
   content_analysis |-> content_analysis]

LeafIdle ==
  /\ text = NoText
  /\ bias_result = <<>>
  /\ neutrality_result = <<>>
  /\ citation_result = <<>>
  /\ rev = NoRev
  /\ bot_result = <<>>

\* analyze_content_changes(revs) has been called
InitSeries ==
  /\ revs \in SeriesInputs
  /\ pc = "loop"
  /\ i = 0
  /\ prev_size = Entry(NoCallYet).prev_size
  /\ prev_citations = Entry(NoCallYet).prev_citations
  /\ prev_bias_count = Entry(NoCallYet).prev_bias_count
  /\ prev_neutrality_score = Entry(NoCallYet).prev_neutrality_score
  /\ content_analysis = Entry(NoCallYet).content_analysis
  /\ outcome = <<>>
  /\ run = 1
  /\ first_outcome = <<>>
  /\ page_title = ""
  /\ indicators = <<>>
  /\ LeafIdle
  /\ TopicIdle
  /\ ApiIdle

\* one pass of the loop  for i, rev in enumerate(revs)
AnalyzeRevision ==
  /\ pc = "loop"
  /\ i < Len(revs)
  /\ \E L \in {LoopBody([exc |-> ""] @@ Current, revs[i + 1])} :
         /\ prev_size' = L.prev_size
         /\ prev_citations' = L.prev_citations
         /\ prev_bias_count' = L.prev_bias_count
         /\ prev_neutrality_score' = L.prev_neutrality_score
         /\ content_analysis' = L.content_analysis
         /\ IF L.exc = ""
              THEN /\ i' = i + 1
                   /\ UNCHANGED <<pc, outcome, first_outcome>>
              ELSE /\ pc' = "raised"
                   /\ outcome' = <<Raise(L.exc)>>
                   /\ first_outcome' = IF run = 1 THEN <<Raise(L.exc)>> ELSE first_outcome
                   /\ UNCHANGED i
  /\ UNCHANGED <<revs, run, page_title, indicators, leaf_vars, bot_vars, topic_vars, api_vars>>

\* return content_analysis
ReturnAnalysis ==
  /\ pc = "loop"
  /\ i = Len(revs)
  /\ pc' = "returned"
  /\ outcome' = <<Return(content_analysis)>>
  /\ first_outcome' = IF run = 1 THEN <<Return(content_analysis)>> ELSE first_outcome
  /\ UNCHANGED <<revs, i, locals, content_analysis, run, page_title, indicators,
                 leaf_vars, bot_vars, topic_vars, api_vars>>

\* bias_indicators = detect_bias_patterns(content_analysis, title)
DetectBiasPatterns ==
  /\ pc = "returned"
  /\ \E title \in Titles, tie \in TiesOf(content_analysis) :
       LET r == detect_bias_patterns(content_analysis, title, tie)
       IN  /\ page_title' = title
           /\ indicators' = <<r.bias_indicators>>
           /\ content_analysis' = r.content_analysis
  /\ pc' = "aggregated"
  /\ UNCHANGED <<revs, i, locals, outcome, run, first_outcome, leaf_vars, bot_vars,
                 topic_vars, api_vars>>

\* analyze_content_changes(revs) is called a second time on the same list
CallAgain ==
  /\ pc \in {"returned", "raised"}
  /\ run = 1
  /\ run' = 2
  /\ pc' = "loop"
  /\ i' = 0
  /\ prev_size' = Entry(Current).prev_size
  /\ prev_citations' = Entry(Current).prev_citations
  /\ prev_bias_count' = Entry(Current).prev_bias_count
  /\ prev_neutrality_score' = Entry(Current).prev_neutrality_score
  /\ content_analysis' = Entry(Current).content_analysis
  /\ outcome' = <<>>
  /\ UNCHANGED <<revs, first_outcome, page_title, indicators, leaf_vars, bot_vars, topic_vars, api_vars>>

NextSeries == AnalyzeRevision \/ ReturnAnalysis \/ DetectBiasPatterns \/ CallAgain

SpecSeries == InitSeries /\ [][NextSeries]_vars

-----------------------------------------------------------------------------
(* analyze_topic_bias: the titles search_pages found are gone through.  For *)
(* each, the revisions are fetched, analyze_content_changes runs on them    *)
(* pass by pass, detect_bias_patterns runs on what it returned, and the     *)
(* page is added to topic_analysis; an exception ends the page.             *)
(* fetch_revisions_for_page catches its errors and returns an empty list.   *)

MaxPages == 3

\* the revision lists a page may have
PageRevs ==
  {Numbered(rs) : rs \in
     { <<>>,
       <<PlainRev(BotAuthor)>>,
       <<PlainRev(HumanAuthor), TextRev(TextCited, HumanAuthor)>>,
       <<PlainRev(HumanAuthor), TextRev("", BotAuthor)>>,
       <<TextRev(TextSlanted, BotAuthor), TextRev(TextCited, BotAuthor),
         TextRev(TextLong, HumanAuthor)>>,
       <<PlainRev(HumanAuthor), TextRev(TextCited, BotAuthor), TextRev(TextLong, HumanAuthor)>> }}

\* the titles in the order search_pages returns them
TopicTitles ==
  <<"Climate change denial", "History of tea", "Gun Control", "Vaccination Debate">>

TopicInputs ==
  { [k \in 1..Len(rl) |-> [title |-> TopicTitles[k], pageid |-> k, revs |-> rl[k]]] :
      rl \in SeqsUpTo(PageRevs, MaxPages) }

\* topic_analysis = {"topic": topic, "pages_analyzed": len(titles), ...}
new_topic_analysis(topic, titles) ==
  [topic |-> topic, pages_analyzed |-> Len(titles), total_edits |-> 0,
   total_bot_edits |-> 0, bias_indicators |-> <<>>, page_results |-> <<>>]

\* sum(1 for rev in revs if is_bot_revision(rev))
bot_edits_of(rs) == Cardinality({k \in 1..Len(rs) : is_bot_revision(rs[k]).ret})

\* the page_result dict, without its enhanced_metrics
page_result_of(page, ca, bias_indicators) ==
  [title           |-> page.title,
   pageid          |-> page.pageid,
   total_edits     |-> Len(page.revs),
   bot_edits       |-> bot_edits_of(page.revs),
   bot_ratio       |-> Frac(bot_edits_of(page.revs), Len(page.revs)),
   bias_indicators |-> bias_indicators,
   content_analysis |->
     [size_changes_count         |-> Len(ca.size_changes),
      citation_changes_count     |-> Len(ca.citation_changes),
      amplification_count        |-> Len(ca.content_amplification),
      bias_phrase_analysis_count |-> Len(ca.bias_phrase_analysis),
      neutrality_analysis_count  |-> Len(ca.neutrality_analysis)]]

\* a faulty variant: the edits of a page are counted before it is analysed
page_pass_counting_first(ta, page, analysis, detected) ==
  IF page.revs = <<>> THEN ta
  ELSE IF analysis.exc # ""
    THEN [ta EXCEPT !.total_edits = @ + Len(page.revs)]
  ELSE [ta EXCEPT !.page_results = Append(@, page_result_of(page, detected.content_analysis,
                                                            detected.bias_indicators)),
                  !.total_edits = @ + Len(page.revs),
                  !.total_bot_edits = @ + bot_edits_of(page.revs),
                  !.bias_indicators = @ \o detected.bias_indicators]

\* the body of the loop for one title: topic_analysis after it
page_pass(ta, page, analysis, detected) ==
  IF page.revs = <<>> THEN ta                       \* if not revs: continue
  ELSE IF analysis.exc # "" THEN ta                 \* except Exception: continue
  ELSE [ta EXCEPT !.page_results = Append(@, page_result_of(page, detected.content_analysis,
                                                            detected.bias_indicators)),
                  !.total_edits = @ + Len(page.revs),
                  !.total_bot_edits = @ + bot_edits_of(page.revs),
                  !.bias_indicators = @ \o detected.bias_indicators]

\* "high" if len(bias_indicators) > 3 else "medium" if > 1 else "low"
bias_severity_of(bias_indicators) ==
  IF Len(bias_indicators) > 3 THEN "high"
  ELSE IF Len(bias_indicators) > 1 THEN "medium" ELSE "low"

\* nothing has been analysed or detected for the page
NothingDetected == [bias_indicators |-> <<>>, content_analysis |-> EmptyDict]

\* analyze_topic_bias(topic) has been called and search_pages has returned
InitTopic ==
  /\ pages \in TopicInputs
  /\ title_index = 0
  /\ topic_analysis = None
  /\ topic_pc = "found"
  /\ LeafIdle
  /\ SeriesIdle
  /\ ApiIdle

\* if not titles: return None; else the dict is made and the loop begins
BeginTopic ==
  /\ topic_pc = "found"
  /\ IF pages = <<>>
       THEN /\ topic_pc' = "returned"
            /\ UNCHANGED topic_analysis
       ELSE /\ topic_pc' = "loop"
            /\ topic_analysis' = Some(new_topic_analysis("climate", pages))
  /\ UNCHANGED <<pages, title_index, leaf_vars, bot_vars, series_vars, api_vars>>

\* the title the loop is at
ThisPage == pages[title_index + 1]

\* revs, pageid = fetch_revisions_for_page(title); if not revs: continue;
\* else analyze_content_changes(revs) is called
FetchPage ==
  /\ topic_pc = "loop"
  /\ title_index < Len(pages)
  /\ pc = "idle"
  /\ IF ThisPage.revs = <<>>
       THEN /\ topic_analysis' = Some(page_pass(topic_analysis[1], ThisPage,
                                                Return(EmptyDict), NothingDetected))
            /\ title_index' = title_index + 1
            /\ UNCHANGED series_vars
       ELSE /\ revs' = ThisPage.revs
            /\ pc' = "loop"
            /\ i' = 0
            /\ prev_size' = Entry(Current).prev_size
            /\ prev_citations' = Entry(Current).prev_citations
            /\ prev_bias_count' = Entry(Current).prev_bias_count
            /\ prev_neutrality_score' = Entry(Current).prev_neutrality_score
            /\ content_analysis' = Entry(Current).content_analysis
            /\ outcome' = <<>>
            /\ indicators' = <<>>
            /\ UNCHANGED <<run, first_outcome, page_title, title_index, topic_analysis>>
  /\ UNCHANGED <<pages, topic_pc, leaf_vars, bot_vars, api_vars>>

\* bias_indicators = detect_bias_patterns(content_analysis, title)
DetectForPage ==
  /\ topic_pc = "loop"
  /\ DetectBiasPatterns
  /\ page_title' = ThisPage.title

\* the rest of the loop body: the page is added; or  except Exception: continue
EndPage ==
  /\ topic_pc = "loop"
  /\ pc \in {"aggregated", "raised"}
  /\ topic_analysis' =
       Some(page_pass(topic_analysis[1], ThisPage, outcome[1],
                      IF pc = "aggregated"
                        THEN [bias_indicators |-> indicators[1],
                              content_analysis |-> content_analysis]
                        ELSE NothingDetected))
  /\ title_index' = title_index + 1
  /\ pc' = "idle"
  /\ UNCHANGED <<pages, topic_pc, revs, i, locals, content_analysis, outcome, run,
                 first_outcome, page_title, indicators, leaf_vars, bot_vars, api_vars>>

\* the overall metrics are added when there are edits, and the dict is returned
ReturnTopic ==
  /\ topic_pc = "loop"
  /\ title_index = Len(pages)
  /\ pc = "idle"
  /\ topic_analysis' =
       IF topic_analysis[1].total_edits > 0
         THEN Some(topic_analysis[1] @@
                   [overall_bot_ratio |-> Frac(topic_analysis[1].total_bot_edits,
                                               topic_analysis[1].total_edits),
                    bias_severity |-> bias_severity_of(topic_analysis[1].bias_indicators)])
         ELSE topic_analysis
  /\ topic_pc' = "returned"
  /\ UNCHANGED <<pages, title_index, leaf_vars, bot_vars, series_vars, api_vars>>

NextTopic ==
  \/ BeginTopic
  \/ FetchPage
  \/ AnalyzeRevision
  \/ ReturnAnalysis
  \/ DetectForPage
  \/ EndPage
  \/ ReturnTopic

SpecTopic == InitTopic /\ [][NextTopic]_vars

-----------------------------------------------------------------------------
(* The first step of the loop body of analyze_content_changes on its own:  *)
(* the content of one revision record is looked up.                        *)

\* what the main slot of a revision may hold
MainDicts ==
  {c @@ t : c \in Field("content", {Some("the main content"), Some(""), None}),
            t \in Field("*", {Some("the main star"), Some("")})}

\* the slots of a revision: none, null, without a main slot, or with one
SlotShapes ==
  {EmptyDict, [slots |-> None], [slots |-> Some(EmptyDict)]}
    \cup {[slots |-> Some([main |-> Some(m)])] : m \in MainDicts}

ContentInputs ==
  {s @@ c @@ t : s \in SlotShapes,
                 c \in Field("content", {Some("the content"), Some(""), None}),
                 t \in Field("*", {Some("the star"), Some("")})}

InitContent ==
  /\ rev \in ContentInputs
  /\ bot_result = <<>>
  /\ text = NoText
  /\ bias_result = <<>>
  /\ neutrality_result = <<>>
  /\ citation_result = <<>>
  /\ SeriesIdle
  /\ TopicIdle
  /\ ApiIdle

\* rev_content is looked up in rev
GetContent ==
  /\ pc = "idle"
  /\ text' = rev_content_of(rev)
  /\ pc' = "content"
  /\ UNCHANGED <<bias_result, neutrality_result, citation_result, bot_vars, revs, i, locals,
                 content_analysis, outcome, run, first_outcome, page_title, indicators,
                 topic_vars, api_vars>>

NextContent == GetContent

SpecContent == InitContent /\ [][NextContent]_vars

-----------------------------------------------------------------------------
(* analyze_content_changes of week7_api.py, run on the list that          *)
(* analyze_content_changes of week7.py is then run on.                     *)

\* count_citations of week7_api.py
count_citations_api(t) ==
  IF t = "" THEN 0
  ELSE findall_len(CITATION_PATTERN, t)

\* One pass of its loop, for the revision r, from the locals and the dict L
\* holds; in exc the exception that ended the pass, if one did.
Pass_api(L, r, rev_content, bot) ==
  LET common == [rev_id |-> get_or_none(r, "revid"),
                 timestamp |-> get_or_none(r, "timestamp"),
                 is_bot |-> bot.ret,
                 user |-> get(r, "user", "Unknown")]
      ca0 == L.content_analysis
      current_size == Len(rev_content)
      ca1 == IF L.prev_size # None
               THEN [ca0 EXCEPT !.size_changes = Append(@,
                       common @@ [size_delta |-> current_size - L.prev_size[1]])]
               ELSE ca0
      current_citations == count_citations_api(rev_content)
      ca2 == IF L.prev_citations # None
               THEN [ca1 EXCEPT !.citation_changes = Append(@,
                       common @@ [citation_delta |-> current_citations - L.prev_citations[1]])]
               ELSE ca1
      user_type == IF bot.ret THEN "bot" ELSE "human"
      ca3 == [ca2 EXCEPT !.edit_frequency = default_increment(@, user_type)]
      ca4 == IF current_size * AMPLIFY_DEN > or_zero(L.prev_size) * AMPLIFY_NUM
               THEN [ca3 EXCEPT !.content_amplification = Append(@,
                       common @@ [size_increase |-> current_size - or_zero(L.prev_size)])]
               ELSE ca3
  IN  IF bot.exc # ""
        THEN [L EXCEPT !.exc = bot.exc]
        ELSE [exc |-> "",
              prev_size |-> Some(current_size),
              prev_citations |-> Some(current_citations),
              content_analysis |-> ca4]

\* both functions have been called with revs; the call of week7_api.py is
\* followed first
InitApi ==
  /\ revs \in SeriesInputs
  /\ pc = "loop"
  /\ i = 0
  /\ prev_size = None
  /\ prev_citations = None
  /\ prev_bias_count = None
  /\ prev_neutrality_score = None
  /\ content_analysis = new_content_analysis
  /\ outcome = <<>>
  /\ run = 1
  /\ first_outcome = <<>>
  /\ page_title = ""
  /\ indicators = <<>>
  /\ api_pc = "loop"
  /\ api_i = 0
  /\ api_prev_size = None
  /\ api_prev_citations = None
  /\ api_analysis = new_api_analysis
  /\ api_outcome = <<>>
  /\ LeafIdle
  /\ TopicIdle

\* one pass of the loop  for i, rev in enumerate(revs)  of week7_api.py
ApiRevision ==
  /\ api_pc = "loop"
  /\ api_i < Len(revs)
  /\ LET r == revs[api_i + 1]
         L == Pass_api([exc |-> "", prev_size |-> api_prev_size,
                        prev_citations |-> api_prev_citations,
                        content_analysis |-> api_analysis],
                       r, rev_content_of(r), is_bot_revision(r))
     IN  /\ api_prev_size' = L.prev_size
         /\ api_prev_citations' = L.prev_citations
         /\ api_analysis' = L.content_analysis
         /\ IF L.exc = ""
              THEN /\ api_i' = api_i + 1
                   /\ UNCHANGED <<api_pc, api_outcome>>
              ELSE /\ api_pc' = "raised"
                   /\ api_outcome' = <<Raise(L.exc)>>
                   /\ UNCHANGED api_i
  /\ UNCHANGED <<leaf_vars, bot_vars, series_vars, topic_vars>>

\* return content_analysis  of week7_api.py
ApiReturn ==
  /\ api_pc = "loop"
  /\ api_i = Len(revs)
  /\ api_pc' = "returned"
  /\ api_outcome' = <<Return(api_analysis)>>
  /\ UNCHANGED <<api_i, api_prev_size, api_prev_citations, api_analysis,
                 leaf_vars, bot_vars, series_vars, topic_vars>>

\* the call of week7.py, followed once that of week7_api.py has ended
AnalyzeRevisionAfterApi == api_pc # "loop" /\ AnalyzeRevision
ReturnAnalysisAfterApi  == api_pc # "loop" /\ ReturnAnalysis

NextApi ==
  \/ ApiRevision
  \/ ApiReturn
  \/ AnalyzeRevisionAfterApi
  \/ ReturnAnalysisAfterApi

SpecApi == InitApi /\ [][NextApi]_vars

-----------------------------------------------------------------------------
(* Properties of the leaf analyzers (SpecText, SpecBot).                   *)

\* C1: for every text, detect_biased_phrases returns bias_score >= 0 and
\* analyze_neutrality_alignment returns neutrality_score in [0,1]; for the
\* empty text the results are bias_count = 0, bias_score = 0, an empty phrase
\* list, neutrality_score = 1.0, no violations and compliance "good".
Thm_C1 ==
  /\ bias_result # <<>> =>
       /\ bias_result[1].bias_score.n >= 0
       /\ bias_result[1].bias_score.d > 0
  /\ neutrality_result # <<>> =>
       /\ neutrality_result[1].neutrality_score >= 0
       /\ neutrality_result[1].neutrality_score <= 100
  /\ (text = "" /\ bias_result # <<>>) =>
       /\ bias_result[1].bias_count = 0
       /\ bias_result[1].bias_score.n = 0
       /\ bias_result[1].biased_phrases = <<>>
  /\ (text = "" /\ neutrality_result # <<>>) =>
       /\ neutrality_result[1].neutrality_score = 100
       /\ neutrality_result[1].violations = <<>>
       /\ neutrality_result[1].compliance = "good"

\* both analyzers have returned for the empty text
Wit_C1 == text = "" /\ bias_result # <<>> /\ neutrality_result # <<>>

\* both analyzers have returned for a text with matches and violations
Wit_C1_nonempty ==
  /\ bias_result # <<>> /\ bias_result[1].bias_count > 0
  /\ neutrality_result # <<>> /\ neutrality_result[1].neutrality_score < 100

\* C3: for every text, the empty text included, the assessment returned by
\* analyze_neutrality_alignment carries a violation_count, equal to the number
\* of entries of its violations list.
Cex_C3 ==
  neutrality_result # <<>> =>
    /\ "violation_count" \in DOMAIN neutrality_result[1]
    /\ neutrality_result[1].violation_count = Len(neutrality_result[1].violations)

\* C3, on the non-empty texts: the count is carried and equals the list's length
Aux_C3_nonempty ==
  (neutrality_result # <<>> /\ text # "") =>
    /\ "violation_count" \in DOMAIN neutrality_result[1]
    /\ neutrality_result[1].violation_count = Len(neutrality_result[1].violations)

\* the field of a record as a string, "" when the key is absent, None or empty
FieldText(r, key) ==
  IF key \in DOMAIN r /\ r[key] # None THEN r[key][1] ELSE ""

\* the tags of a record, <<>> when the key is absent or None
FieldTags(r) ==
  IF "tags" \in DOMAIN r /\ r["tags"] # None THEN r["tags"][1] ELSE <<>>

\* the classification C4 states
ClaimedBot(r) ==
  \/ Contains(lower(FieldText(r, "flags")), "bot")
  \/ \E k \in 1..Len(FieldTags(r)) : Contains(lower(FieldTags(r)[k]), "bot")
  \/ \E w \in {"bot", "automated", "script", "maintenance"} :
       Contains(lower(FieldText(r, "user")), w)

\* C4: for every revision record, also with flags, tags or user absent, None
\* or empty, is_bot_revision returns without failing, and returns True exactly
\* when the lower-cased flags contain "bot", or some lower-cased tag contains
\* "bot", or the lower-cased user name contains one of "bot", "automated",
\* "script", "maintenance".
Thm_C4 ==
  bot_result # <<>> =>
    /\ bot_result[1].exc = ""
    /\ bot_result[1].ret = ClaimedBot(rev)

\* a record with None user and None tags and no flags has been classified
Wit_C4 ==
  /\ bot_result # <<>>
  /\ "flags" \notin DOMAIN rev
  /\ "tags" \in DOMAIN rev /\ rev["tags"] = None
  /\ "user" \in DOMAIN rev /\ rev["user"] = None
  /\ bot_result[1] = Return(FALSE)

\* a record is classified a bot by its user name alone
Wit_C4_user ==
  /\ bot_result # <<>>
  /\ bot_result[1] = Return(TRUE)
  /\ FieldText(rev, "flags") = "" /\ FieldTags(rev) = <<>>

\* the positions of the ">" that end a "<ref...>" tag of t: a ">" that some
\* "<ref" (in any case) precedes with no other ">" in between
RefTagEnds(t) ==
  {e \in 1..Len(t) :
     /\ CharAt(t, e) = ">"
     /\ \E p \in 1..(e - 4) :
          /\ lower(SubSeq(t, p, p + 3)) = "<ref"
          /\ \A j \in (p + 4)..(e - 1) : CharAt(t, j) # ">"}

\* C5: count_citations returns the number of "<ref...>" opening tags of the
\* text ("<ref", then characters other than ">", then ">"), in any case;
\* closing "</ref>" tags are not counted; the empty text gives 0.
Thm_C5 ==
  citation_result # <<>> =>
    /\ citation_result[1] = Cardinality(RefTagEnds(text))
    /\ text = "" => citation_result[1] = 0

\* upper-case tags and closing tags: two opening tags are counted
Wit_C5 ==
  /\ citation_result = <<2>>
  /\ Contains(text, "<REF>") /\ Contains(text, "</Ref>") /\ Contains(text, "</ref>")

Rank(compliance) ==
  CASE compliance = "good" -> 2
    [] compliance = "moderate" -> 1
    [] compliance = "poor" -> 0

\* C6: compliance is a function of neutrality_score alone: "good" iff the
\* score is >= 0.85, "moderate" iff 0.65 <= score < 0.85, "poor" iff
\* score < 0.65; a text whose only violation is of medium severity scores 0.85
\* and is "good", one whose only violation is of high severity scores 0.75 and
\* is "moderate"; a higher score never has a worse compliance.
Thm_C6 ==
  /\ neutrality_result # <<>> =>
       LET r == neutrality_result[1] IN
       /\ r.compliance = "good" <=> r.neutrality_score >= 85
       /\ r.compliance = "moderate" <=>
            (r.neutrality_score >= 65 /\ r.neutrality_score < 85)
       /\ r.compliance = "poor" <=> r.neutrality_score < 65
       /\ (Len(r.violations) = 1 /\ r.violations[1].severity = "medium") =>
            (r.neutrality_score = 85 /\ r.compliance = "good")
       /\ (Len(r.violations) = 1 /\ r.violations[1].severity = "high") =>
            (r.neutrality_score = 75 /\ r.compliance = "moderate")
       /\ \A b \in 0..100 :
            r.neutrality_score > b => Rank(r.compliance) >= Rank(compliance_of(b))

\* a text whose only violation is of medium severity
Wit_C6 ==
  /\ neutrality_result # <<>>
  /\ Len(neutrality_result[1].violations) = 1
  /\ neutrality_result[1].violations[1].severity = "medium"
  /\ neutrality_result[1].compliance = "good"

\* a text whose only violation is of high severity
Wit_C6_high ==
  /\ neutrality_result # <<>>
  /\ Len(neutrality_result[1].violations) = 1
  /\ neutrality_result[1].violations[1].severity = "high"
  /\ neutrality_result[1].compliance = "moderate"

\* the first-person violations of an assessment
PovViolations(r) ==
  {k \in 1..Len(r.violations) : r.violations[k].type = "first_person_pov"}

\* C7: when a text has at least one first-person cognition match,
\* analyze_neutrality_alignment emits exactly one "first_person_pov" violation,
\* of severity "high", however many matches there are, and the score is at
\* most 0.75; with no match it emits none.
Thm_C7 ==
  neutrality_result # <<>> =>
    LET r == neutrality_result[1]
        pov_indicators == findall_len(NEUTRALITY_PATTERNS.pov_indicators, text)
    IN  IF pov_indicators > 0
          THEN /\ Cardinality(PovViolations(r)) = 1
               /\ \A k \in PovViolations(r) : r.violations[k].severity = "high"
               /\ r.neutrality_score <= 75
          ELSE PovViolations(r) = {}

\* a text with several first-person matches has been assessed
Wit_C7 ==
  /\ neutrality_result # <<>>
  /\ findall_len(NEUTRALITY_PATTERNS.pov_indicators, text) >= 2
  /\ Cardinality(PovViolations(neutrality_result[1])) = 1

-----------------------------------------------------------------------------
(* Properties of the series analyzer and the aggregator (SpecSeries).      *)

\* C2: analyze_content_changes completes and returns a result, never a
\* failure, for every ordered sequence of revision records, whatever mix of
\* empty, absent and non-empty content the revisions carry and wherever they
\* stand in the sequence.
Cex_C2 == pc # "raised"

\* C2, on the series whose revisions after the first all have content: the
\* call does not fail
Aux_C2_content ==
  (\A k \in 2..Len(revs) : rev_content_of(revs[k]) # "") => pc # "raised"

\* the dicts of the two calls of analyze_content_changes, once both returned
FirstRun  == first_outcome[1].ret
SecondRun == outcome[1].ret

\* C8: running analyze_content_changes twice on the same ordered revision
\* sequence yields identical size, citation, bias and neutrality deltas,
\* identical amplification events and identical bot/human counts; a call that
\* fails fails the same way the second time.
Thm_C8 ==
  (run = 2 /\ pc \in {"returned", "raised"}) =>
    /\ outcome[1].exc = first_outcome[1].exc
    /\ pc = "returned" =>
         /\ SecondRun.size_changes = FirstRun.size_changes
         /\ SecondRun.citation_changes = FirstRun.citation_changes
         /\ SecondRun.bias_phrase_analysis = FirstRun.bias_phrase_analysis
         /\ SecondRun.neutrality_analysis = FirstRun.neutrality_analysis
         /\ SecondRun.content_amplification = FirstRun.content_amplification
         /\ SecondRun.edit_frequency = FirstRun.edit_frequency

\* the second call has returned for a series with bot and human revisions,
\* deltas and amplifications
Wit_C8 ==
  /\ run = 2
  /\ pc = "returned"
  /\ DOMAIN SecondRun.edit_frequency = {"bot", "human"}
  /\ Len(SecondRun.size_changes) >= 2
  /\ Len(SecondRun.neutrality_analysis) >= 2
  /\ Len(SecondRun.content_amplification) >= 2

\* the bot and the total edit counts of the dict analyze_content_changes returned
BotEdits ==
  LET ef == outcome[1].ret.edit_frequency
  IN  IF "bot" \in DOMAIN ef THEN ef["bot"] ELSE 0
TotalEdits ==
  LET ef == outcome[1].ret.edit_frequency
  IN  BotEdits + (IF "human" \in DOMAIN ef THEN ef["human"] ELSE 0)

\* the severities of the high_bot_ratio indicators emitted, in order
HighBotRatio ==
  LET l == indicators[1]
      IsRatio(x) == x.type = "high_bot_ratio"
      hits == SelectSeq(l, IsRatio)
  IN  [k \in 1..Len(hits) |-> hits[k].severity]

\* C9: detect_bias_patterns emits a "high_bot_ratio" indicator iff bot
\* revisions / total revisions > 0.3 (a ratio of exactly 0.3, or zero total
\* revisions, emits none), with severity "high" when the ratio > 0.6,
\* "medium" when 0.4 < ratio <= 0.6, and "low" when 0.3 < ratio <= 0.4.
Thm_C9 ==
  pc = "aggregated" =>
    HighBotRatio =
      IF TotalEdits = 0 \/ 10 * BotEdits <= 3 * TotalEdits THEN <<>>
      ELSE IF 10 * BotEdits > 6 * TotalEdits THEN <<"high">>
      ELSE IF 10 * BotEdits > 4 * TotalEdits THEN <<"medium">>
      ELSE <<"low">>

\* a series with a bot ratio of exactly 0.3 has been aggregated
Wit_C9 ==
  /\ pc = "aggregated"
  /\ BotEdits = 3 /\ TotalEdits = 10
  /\ HighBotRatio = <<>>

\* bot ratios of exactly 0.4 and exactly 0.6, and one above 0.6
Wit_C9_low == pc = "aggregated" /\ BotEdits = 2 /\ TotalEdits = 5 /\ HighBotRatio = <<"low">>
Wit_C9_medium == pc = "aggregated" /\ BotEdits = 3 /\ TotalEdits = 5 /\ HighBotRatio = <<"medium">>
Wit_C9_high == pc = "aggregated" /\ BotEdits = 7 /\ TotalEdits = 10 /\ HighBotRatio = <<"high">>
Wit_C9_none == pc = "aggregated" /\ TotalEdits = 0 /\ HighBotRatio = <<>>

\* C10: detect_bias_patterns is a pure function of its inputs: after it
\* returns, the dict passed to it is unchanged, including the set of keys and
\* the values of its bot/human edit-count map and every delta and
\* amplification list.
Cex_C10 == pc = "aggregated" => content_analysis = outcome[1].ret

\* C10, apart from the edit-count map: the lists are unchanged, and so are the
\* counts the map held
Aux_C10_lists ==
  pc = "aggregated" =>
    /\ \A key \in DOMAIN content_analysis \ {"edit_frequency"} :
         content_analysis[key] = outcome[1].ret[key]
    /\ DOMAIN content_analysis = DOMAIN outcome[1].ret
    /\ \A key \in DOMAIN outcome[1].ret.edit_frequency :
         content_analysis.edit_frequency[key] = outcome[1].ret.edit_frequency[key]

\* what revision k of the series carries, and what the analyzers make of it
ContentOf(k) == rev_content_of(revs[k])
ValuesOf(k) ==
  [size       |-> Len(ContentOf(k)),
   citations  |-> Analysis(ContentOf(k)).citations,
   bias_count |-> Analysis(ContentOf(k)).bias.bias_count,
   neutrality |-> Analysis(ContentOf(k)).neutrality.neutrality_score]

\* the entry e is stamped with revision k: its id, its user, its author's kind
StampedWith(e, k) ==
  /\ e.rev_id = revs[k].revid
  /\ e.user = revs[k].user
  /\ e.is_bot = is_bot_revision(revs[k]).ret

\* C11: analyze_content_changes consumes the revisions in the order given:
\* for n >= 1 revisions there are n - 1 entries in each delta list, the k-th
\* is the value of revision k+1 minus the value of revision k (size, citation
\* count, bias_count, neutrality_score) and carries the rev_id, user and bot
\* classification of revision k+1; the first revision has no delta.
Thm_C11 ==
  pc = "returned" =>
    LET ca == outcome[1].ret
        n  == Len(revs)
    IN  /\ Len(ca.size_changes) = Max(n - 1, 0)
        /\ Len(ca.citation_changes) = Max(n - 1, 0)
        /\ Len(ca.bias_phrase_analysis) = Max(n - 1, 0)
        /\ Len(ca.neutrality_analysis) = Max(n - 1, 0)
        /\ \A k \in 1..(n - 1) :
             /\ ca.size_changes[k].size_delta = ValuesOf(k + 1).size - ValuesOf(k).size
             /\ ca.citation_changes[k].citation_delta
                  = ValuesOf(k + 1).citations - ValuesOf(k).citations
             /\ ca.bias_phrase_analysis[k].bias_delta
                  = ValuesOf(k + 1).bias_count - ValuesOf(k).bias_count
             /\ ca.neutrality_analysis[k].neutrality_delta
                  = ValuesOf(k + 1).neutrality - ValuesOf(k).neutrality
             /\ StampedWith(ca.size_changes[k], k + 1)
             /\ StampedWith(ca.citation_changes[k], k + 1)
             /\ StampedWith(ca.bias_phrase_analysis[k], k + 1)
             /\ StampedWith(ca.neutrality_analysis[k], k + 1)

\* three revisions of three different sizes, by different authors, returned
Wit_C11 ==
  /\ pc = "returned"
  /\ Len(revs) = 3
  /\ ValuesOf(1).size # ValuesOf(2).size
  /\ ValuesOf(2).size # ValuesOf(3).size
  /\ ValuesOf(1).size # ValuesOf(3).size
  /\ ValuesOf(1).neutrality # ValuesOf(2).neutrality
  /\ revs[2].user # revs[3].user
  /\ Len(outcome[1].ret.size_changes) = 2

\* the count edit_frequency holds for a kind of author, 0 when it holds none
CountOf(ef, kind) == IF kind \in DOMAIN ef THEN ef[kind] ELSE 0

\* C12: for the empty revision sequence analyze_content_changes returns empty
\* delta lists, an empty amplification list and zero bot and human counts, and
\* detect_bias_patterns applied to that result returns an empty indicator list
\* for every page title.
Thm_C12 ==
  revs = <<>> =>
    /\ pc # "raised"
    /\ pc \in {"returned", "aggregated"} =>
         LET ca == outcome[1].ret
         IN  /\ ca.size_changes = <<>>
             /\ ca.citation_changes = <<>>
             /\ ca.bias_phrase_analysis = <<>>
             /\ ca.neutrality_analysis = <<>>
             /\ ca.content_amplification = <<>>
             /\ CountOf(ca.edit_frequency, "bot") = 0
             /\ CountOf(ca.edit_frequency, "human") = 0
    /\ pc = "aggregated" => indicators = << <<>> >>

\* the empty series has been aggregated under a controversial, polarized title
Wit_C12 ==
  /\ revs = <<>>
  /\ pc = "aggregated"
  /\ title_has(page_title, controversial_keywords)
  /\ title_has(page_title, high_polarization_keywords)
  /\ indicators = << <<>> >>

-----------------------------------------------------------------------------
(* Further properties of the leaf analyzers (SpecText).                    *)

\* the number of violations of an assessment that have the given severity
SeverityCount(r, severity) ==
  Cardinality({k \in 1..Len(r.violations) : r.violations[k].severity = severity})

\* C13: neutrality_score equals max(0, 1 - S), S being the sum over all
\* emitted violations of 0.25 for severity high, 0.15 for medium and 0.10 for
\* low; a text with no violation scores exactly 1.0.
Thm_C13 ==
  neutrality_result # <<>> =>
    LET r == neutrality_result[1]
        S == 25 * SeverityCount(r, "high") + 15 * SeverityCount(r, "medium")
               + 10 * SeverityCount(r, "low")
    IN  /\ r.neutrality_score = (IF S >= 100 THEN 0 ELSE 100 - S)
        /\ SeverityCount(r, "high") + SeverityCount(r, "medium") + SeverityCount(r, "low")
             = Len(r.violations)
        /\ r.violations = <<>> => r.neutrality_score = 100

\* a text with a high and a low violation has been scored
Wit_C13 ==
  /\ neutrality_result # <<>>
  /\ SeverityCount(neutrality_result[1], "high") = 1
  /\ SeverityCount(neutrality_result[1], "low") = 1
  /\ neutrality_result[1].neutrality_score = 65

\* texts with two medium violations, and with a medium and a high one
Wit_C13_medium ==
  /\ neutrality_result # <<>>
  /\ SeverityCount(neutrality_result[1], "medium") = 2
  /\ neutrality_result[1].neutrality_score = 70
Wit_C13_mixed ==
  /\ neutrality_result # <<>>
  /\ SeverityCount(neutrality_result[1], "medium") >= 1
  /\ SeverityCount(neutrality_result[1], "high") = 1

\* a non-empty text without violations has been scored
Wit_C13_clean ==
  /\ neutrality_result # <<>>
  /\ text # ""
  /\ neutrality_result[1].violations = <<>>
  /\ neutrality_result[1].neutrality_score = 100

\* the violations of an assessment that have the given type
ViolationsOfType(r, type) ==
  {k \in 1..Len(r.violations) : r.violations[k].type = type}

StrongClaims   == findall_len(NEUTRALITY_PATTERNS.strong_claims, text)
Counterpoints  == findall_len(NEUTRALITY_PATTERNS.counterpoints, text)

\* C14: analyze_neutrality_alignment emits a "missing_counterpoints" violation
\* of severity medium iff strong_claims >= 3 and counterpoint_indicators <
\* 0.3 * strong_claims (counterpoint_indicators = 0 included), and never more
\* than one: 3 strong claims with 1 counterpoint emit none, 4 strong claims
\* with 1 counterpoint emit one.
Thm_C14 ==
  neutrality_result # <<>> =>
    LET r == neutrality_result[1]
        missing == ViolationsOfType(r, "missing_counterpoints")
    IN  /\ Cardinality(missing) =
             (IF StrongClaims >= 3 /\ 10 * Counterpoints < 3 * StrongClaims THEN 1 ELSE 0)
        /\ \A k \in missing : r.violations[k].severity = "medium"

\* 4 strong claims with 1 counterpoint: one violation
Wit_C14 ==
  /\ neutrality_result # <<>>
  /\ StrongClaims = 4 /\ Counterpoints = 1
  /\ Cardinality(ViolationsOfType(neutrality_result[1], "missing_counterpoints")) = 1

\* 3 strong claims with 1 counterpoint: none
Wit_C14_three ==
  /\ neutrality_result # <<>>
  /\ StrongClaims = 3 /\ Counterpoints = 1
  /\ ViolationsOfType(neutrality_result[1], "missing_counterpoints") = {}

\* 3 or more strong claims without any counterpoint: one violation
Wit_C14_none ==
  /\ neutrality_result # <<>>
  /\ StrongClaims >= 3 /\ Counterpoints = 0
  /\ Cardinality(ViolationsOfType(neutrality_result[1], "missing_counterpoints")) = 1

LoadedTerms == findall_len(NEUTRALITY_PATTERNS.loaded_terms, text)

\* C15: analyze_neutrality_alignment emits an "excessive_loaded_language"
\* violation of severity low iff loaded_terms > 3, or loaded_terms > 1 and the
\* text is shorter than 200 characters; it emits at most one, and none for a
\* text of 200 or more characters with 2 or 3 loaded terms.
Thm_C15 ==
  neutrality_result # <<>> =>
    LET r == neutrality_result[1]
        excessive == ViolationsOfType(r, "excessive_loaded_language")
    IN  /\ Cardinality(excessive) =
             (IF LoadedTerms > 3 \/ (LoadedTerms > 1 /\ Len(text) < 200) THEN 1 ELSE 0)
        /\ \A k \in excessive : r.violations[k].severity = "low"

\* a text of 200 or more characters with 2 loaded terms: none
Wit_C15 ==
  /\ neutrality_result # <<>>
  /\ Len(text) >= 200 /\ LoadedTerms = 2
  /\ ViolationsOfType(neutrality_result[1], "excessive_loaded_language") = {}

\* a text of 200 or more characters with 4 loaded terms: one
Wit_C15_long ==
  /\ neutrality_result # <<>>
  /\ Len(text) >= 200 /\ LoadedTerms > 3
  /\ Cardinality(ViolationsOfType(neutrality_result[1], "excessive_loaded_language")) = 1

\* a short text with 2 loaded terms: one; a short text with 1: none
Wit_C15_short ==
  /\ neutrality_result # <<>>
  /\ Len(text) < 200 /\ LoadedTerms = 2
  /\ Cardinality(ViolationsOfType(neutrality_result[1], "excessive_loaded_language")) = 1
Wit_C15_single ==
  /\ neutrality_result # <<>>
  /\ LoadedTerms = 1
  /\ ViolationsOfType(neutrality_result[1], "excessive_loaded_language") = {}

\* C16: for every non-empty text bias_score = bias_count / max(text_length /
\* 1000, 1): for a text of at most 1000 characters it equals bias_count, for
\* a longer one bias_count * 1000 / text_length, so it never exceeds
\* bias_count.
Thm_C16 ==
  (bias_result # <<>> /\ text # "") =>
    LET bias_score == bias_result[1].bias_score
        bias_count == bias_result[1].bias_count
    IN  /\ bias_score.d > 0
        /\ Len(text) <= 1000 => bias_score.n = bias_count * bias_score.d
        /\ Len(text) > 1000 => bias_score.n * Len(text) = bias_count * 1000 * bias_score.d
        /\ bias_score.n <= bias_count * bias_score.d

\* a text of more than 1000 characters with matches has been scored
Wit_C16 ==
  /\ bias_result # <<>>
  /\ Len(text) > 1000
  /\ bias_result[1].bias_count > 0
  /\ bias_result[1].bias_score.n < bias_result[1].bias_count * bias_result[1].bias_score.d

\* a text of at most 1000 characters with matches has been scored
Wit_C16_short ==
  /\ bias_result # <<>>
  /\ Len(text) <= 1000
  /\ bias_result[1].bias_count > 0
  /\ bias_result[1].bias_score.n = bias_result[1].bias_count * bias_result[1].bias_score.d

\* every match of every pattern of every category in the text t, with the
\* index of its category, the index of its pattern and its position
MatchKeys(t) ==
  UNION { UNION { LET ms == finditer(BIAS_PATTERNS[ci].patterns[pi], t)
                  IN  { [ci |-> ci, pi |-> pi, start |-> ms[k].start, end |-> ms[k].end]
                        : k \in 1..Len(ms) }
                  : pi \in 1..Len(BIAS_PATTERNS[ci].patterns) }
          : ci \in 1..Len(BIAS_PATTERNS) }

\* category first, then pattern, then position in the text
KeyBefore(a, b) ==
  \/ a.ci < b.ci
  \/ a.ci = b.ci /\ a.pi < b.pi
  \/ a.ci = b.ci /\ a.pi = b.pi /\ a.start < b.start

\* C17: bias_count is the number of all matches of all patterns of the four
\* categories, without a cap; the returned list holds the first
\* min(10, bias_count) of them in the order category (loaded_language,
\* opinionated, unbalanced, political), pattern, position in the text.
Thm_C17 ==
  (bias_result # <<>> /\ text # "") =>
    LET keys    == MatchKeys(text)
        phrases == bias_result[1].biased_phrases
    IN  /\ [c \in 1..Len(BIAS_PATTERNS) |-> BIAS_PATTERNS[c].category]
             = <<"loaded_language", "opinionated", "unbalanced", "political">>
        /\ bias_result[1].bias_count = Cardinality(keys)
        /\ Len(phrases) = Min(10, Cardinality(keys))
        /\ \A j \in 1..Len(phrases) :
             \E key \in keys :
               /\ Cardinality({other \in keys : KeyBefore(other, key)}) = j - 1
               /\ phrases[j].category = BIAS_PATTERNS[key.ci].category
               /\ phrases[j].phrase = SubSeq(text, key.start, key.end - 1)

\* a text with more than ten matches, whose order in the text is not the
\* order of the categories, has been analysed
Wit_C17 ==
  /\ bias_result # <<>>
  /\ bias_result[1].bias_count > 10
  /\ Len(bias_result[1].biased_phrases) = 10
  /\ \E a, b \in MatchKeys(text) : KeyBefore(a, b) /\ b.start < a.start

\* a text with between one and ten matches has been analysed
Wit_C17_few ==
  /\ bias_result # <<>>
  /\ bias_result[1].bias_count \in 1..10
  /\ Len(bias_result[1].biased_phrases) = bias_result[1].bias_count

-----------------------------------------------------------------------------
(* Further properties of the series analysis (SpecSeries).                  *)

\* the size of the revision before revision k, 0 before the first
SizeBefore(k) == IF k = 1 THEN 0 ELSE ValuesOf(k - 1).size

\* the revisions among the first n whose size is above 1.5 times the size before
Amplifying(n) == {k \in 1..n : 2 * ValuesOf(k).size > 3 * SizeBefore(k)}

\* the revisions an amplification event has been recorded for
Amplified ==
  {content_analysis.content_amplification[j].rev_id[1] :
     j \in 1..Len(content_analysis.content_amplification)}

\* C18: an amplification event is recorded for a revision iff its size is
\* strictly greater than 1.5 times the size of the revision before it, taken
\* as 0 for the first revision; so a non-empty first revision amplifies, an
\* empty revision never does, and a non-empty revision directly after an
\* empty one does.  The events are in the order of the revisions and carry
\* the increase in size.
Thm_C18 ==
  pc \in {"loop", "returned", "raised"} =>
    LET amp == content_analysis.content_amplification
    IN  /\ Amplified = Amplifying(i)
        /\ Len(amp) = Cardinality(Amplifying(i))
        /\ \A j \in 1..Len(amp) :
             /\ StampedWith(amp[j], amp[j].rev_id[1])
             /\ amp[j].size_increase
                  = ValuesOf(amp[j].rev_id[1]).size - SizeBefore(amp[j].rev_id[1])
             /\ \A h \in 1..(j - 1) : amp[h].rev_id[1] < amp[j].rev_id[1]
        /\ \A k \in 1..i :
             /\ (k = 1 /\ ValuesOf(k).size > 0) => k \in Amplified
             /\ ValuesOf(k).size = 0 => k \notin Amplified
             /\ (k > 1 /\ ValuesOf(k).size > 0 /\ ValuesOf(k - 1).size = 0)
                  => k \in Amplified

\* an empty first revision without an event, followed by a non-empty one
\* with an event, and the analysis returned
Wit_C18 ==
  /\ pc = "returned"
  /\ Len(revs) >= 2
  /\ ValuesOf(1).size = 0
  /\ ValuesOf(2).size > 0
  /\ Amplified = {2}

\* a non-empty first revision with an event, followed by a larger revision
\* of at most 1.5 times its size without one
Wit_C18_grown ==
  /\ pc = "returned"
  /\ Len(revs) >= 2
  /\ ValuesOf(2).size > ValuesOf(1).size
  /\ 1 \in Amplified
  /\ 2 \notin Amplified

\* a later revision of more than 1.5 times the size before it, with an event
Wit_C18_later ==
  /\ pc = "returned"
  /\ Len(revs) = 3
  /\ ValuesOf(2).size > 0
  /\ 3 \in Amplified
  /\ 2 \notin Amplified

\* the severities of the indicators of one type emitted, in order
SeveritiesOf(type) ==
  LET IsOfType(x) == x.type = type
      hits == SelectSeq(indicators[1], IsOfType)
  IN  [k \in 1..Len(hits) |-> hits[k].severity]

\* the bias samples of the dict analyze_content_changes returned, their
\* means, and whether rounding may decide one of the comparisons of the means
BotBias == Authored(outcome[1].ret.bias_phrase_analysis, TRUE)
HumanBias == Authored(outcome[1].ret.bias_phrase_analysis, FALSE)
BotBiasMean == BiasAvg(outcome[1].ret, TRUE)
HumanBiasMean == BiasAvg(outcome[1].ret, FALSE)
BiasMeansTied ==
  \E m \in {12, 15} :
    \/ AtTie(BotBiasMean, FracMul(HumanBiasMean, m, 10), FALSE)
    \/ AtTie(HumanBiasMean, FracMul(BotBiasMean, m, 10), FALSE)

\* "medium" when the higher mean exceeds 1.5 times the lower, else "low"
BySpread(above, below) ==
  IF FracLess(FracMul(below, 15, 10), above) THEN "medium" ELSE "low"

\* C19: when both bias samples are non-empty and one group's mean bias_score
\* exceeds 1.2 times the other's, "biased_language_bias" (bot higher) or
\* "biased_language_correction" (human higher) is emitted, in either
\* direction "medium" when the higher mean exceeds 1.5 times the lower and
\* "low" otherwise; else neither is emitted.  Stated where no comparison is
\* at a rounding boundary.
Cex_C19 ==
  (pc = "aggregated" /\ ~BiasMeansTied) =>
    IF BotBias # <<>> /\ HumanBias # <<>>
         /\ FracLess(FracMul(HumanBiasMean, 12, 10), BotBiasMean)
      THEN /\ SeveritiesOf("biased_language_bias") = <<BySpread(BotBiasMean, HumanBiasMean)>>
           /\ SeveritiesOf("biased_language_correction") = <<>>
    ELSE IF BotBias # <<>> /\ HumanBias # <<>>
              /\ FracLess(FracMul(BotBiasMean, 12, 10), HumanBiasMean)
      THEN /\ SeveritiesOf("biased_language_correction")
                = <<BySpread(HumanBiasMean, BotBiasMean)>>
           /\ SeveritiesOf("biased_language_bias") = <<>>
    ELSE /\ SeveritiesOf("biased_language_bias") = <<>>
         /\ SeveritiesOf("biased_language_correction") = <<>>

\* C19, apart from the severity of the correction: the code's is always "low"
Aux_C19_low ==
  (pc = "aggregated" /\ ~BiasMeansTied) =>
    IF BotBias # <<>> /\ HumanBias # <<>>
         /\ FracLess(FracMul(HumanBiasMean, 12, 10), BotBiasMean)
      THEN /\ SeveritiesOf("biased_language_bias") = <<BySpread(BotBiasMean, HumanBiasMean)>>
           /\ SeveritiesOf("biased_language_correction") = <<>>
    ELSE IF BotBias # <<>> /\ HumanBias # <<>>
              /\ FracLess(FracMul(BotBiasMean, 12, 10), HumanBiasMean)
      THEN /\ SeveritiesOf("biased_language_correction") = <<"low">>
           /\ SeveritiesOf("biased_language_bias") = <<>>
    ELSE /\ SeveritiesOf("biased_language_bias") = <<>>
         /\ SeveritiesOf("biased_language_correction") = <<>>

\* the human mean is above 1.5 times the bot mean and the correction is "low"
Aux_C19_reached ==
  /\ pc = "aggregated"
  /\ ~BiasMeansTied
  /\ BotBias # <<>>
  /\ HumanBias # <<>>
  /\ FracLess(FracMul(BotBiasMean, 15, 10), HumanBiasMean)
  /\ SeveritiesOf("biased_language_correction") = <<"low">>

\* the bot mean is above 1.5 times the human mean and the indicator is "medium"
Aux_C19_bot_medium ==
  /\ pc = "aggregated"
  /\ ~BiasMeansTied
  /\ FracLess(FracMul(HumanBiasMean, 15, 10), BotBiasMean)
  /\ SeveritiesOf("biased_language_bias") = <<"medium">>

\* the neutrality entries of the dict analyze_content_changes returned, by
\* kind of author, and the violations counted in them
BotNeutrality == Authored(outcome[1].ret.neutrality_analysis, TRUE)
HumanNeutrality == Authored(outcome[1].ret.neutrality_analysis, FALSE)
BotViolations == SumSeq(Column(BotNeutrality, "violation_count"))
TotalViolations == BotViolations + SumSeq(Column(HumanNeutrality, "violation_count"))

\* what 60% and 80% of the total make of the bot entries' violations
ByShare ==
  IF BotViolations * 10 > TotalViolations * 6
    THEN <<IF BotViolations * 10 > TotalViolations * 8 THEN "medium" ELSE "low">>
    ELSE <<>>

\* C20: whatever the number of bot-authored and human-authored neutrality
\* entries, "neutrality_violation_bias" is emitted iff the bot entries'
\* violation count is strictly greater than 60% of the bot+human total,
\* "medium" when it exceeds 80% and "low" otherwise, independently of the
\* precondition of any other check.
Cex_C20 ==
  pc = "aggregated" => SeveritiesOf("neutrality_violation_bias") = ByShare

\* C20 as the code has it: the check is made only when there are both bot and
\* human neutrality entries
Aux_C20_both ==
  pc = "aggregated" =>
    SeveritiesOf("neutrality_violation_bias")
      = IF BotNeutrality # <<>> /\ HumanNeutrality # <<>> THEN ByShare ELSE <<>>

\* all the violations are in bot entries, there is no human entry, and no
\* indicator is emitted
Aux_C20_reached ==
  /\ pc = "aggregated"
  /\ BotViolations > 0
  /\ HumanNeutrality = <<>>
  /\ SeveritiesOf("neutrality_violation_bias") = <<>>

\* with entries of both kinds, all the violations in the bot ones, the
\* indicator is emitted
Aux_C20_medium ==
  /\ pc = "aggregated"
  /\ HumanNeutrality # <<>>
  /\ SeveritiesOf("neutrality_violation_bias") = <<"medium">>

\* the means of the neutrality samples and their absolute difference
BotNeutralityMean == NeutralityAvg(outcome[1].ret, TRUE)
HumanNeutralityMean == NeutralityAvg(outcome[1].ret, FALSE)
NeutralityGap == FracAbs(FracSub(BotNeutralityMean, HumanNeutralityMean))

\* the neutrality scores are floats: a gap that is 0.15 or 0.25 in decimal
\* arithmetic may lie on either side of the threshold
GapAt(n) ==
  /\ ~FracLess(NeutralityGap, Frac(n, 100))
  /\ ~FracLess(Frac(n, 100), NeutralityGap)
  /\ ~(IsPowerOfTwo(Frac(n, 100).d) /\ Dyadic(BotNeutralityMean) /\ Dyadic(HumanNeutralityMean))

\* the severities "neutrality_bias" may have for the gap
GapSeverities ==
  IF GapAt(25) THEN {"high", "medium"}
  ELSE IF FracLess(Frac(25, 100), NeutralityGap) THEN {"high"}
  ELSE {"medium"}

\* exactly one indicator of the pair, the one for the direction of the gap
OneOfThePair ==
  IF FracLess(BotNeutralityMean, HumanNeutralityMean)
    THEN /\ Len(SeveritiesOf("neutrality_bias")) = 1
         /\ SeveritiesOf("neutrality_bias")[1] \in GapSeverities
         /\ SeveritiesOf("neutrality_correction") = <<>>
    ELSE /\ SeveritiesOf("neutrality_correction") = <<"low">>
         /\ SeveritiesOf("neutrality_bias") = <<>>

NoneOfThePair ==
  /\ SeveritiesOf("neutrality_bias") = <<>>
  /\ SeveritiesOf("neutrality_correction") = <<>>

Wit_C21_medium ==
  /\ pc = "aggregated"
  /\ FracLess(BotNeutralityMean, HumanNeutralityMean)
  /\ NeutralityGap = Frac(25, 100)
  /\ ~GapAt(25)
  /\ SeveritiesOf("neutrality_bias") = <<"medium">>

\* bot mean higher by more than 0.15: the correction, "low"
Wit_C21_correction ==
  /\ pc = "aggregated"
  /\ FracLess(HumanNeutralityMean, BotNeutralityMean)
  /\ FracLess(Frac(15, 100), NeutralityGap)
  /\ SeveritiesOf("neutrality_correction") = <<"low">>

\* both samples non-empty, a difference of 0.10: neither
Wit_C21_none ==
  /\ pc = "aggregated"
  /\ BotNeutrality # <<>>
  /\ HumanNeutrality # <<>>
  /\ NeutralityGap = Frac(10, 100)
  /\ NoneOfThePair

\* the amplifying revisions of the series, and those of them made by a bot
AllAmplifying == Amplifying(Len(revs))
BotAmplifying == {k \in AllAmplifying : is_bot_revision(revs[k]).ret}

\* C22: "content_amplification_bias" is emitted iff the bot-authored
\* amplification events are strictly more than 50% of all the amplification
\* events of the series, the first revision's included; "medium" when they
\* are more than 80%, "low" otherwise; none when there is no event.
Thm_C22 ==
  pc = "aggregated" =>
    /\ Len(outcome[1].ret.content_amplification) = Cardinality(AllAmplifying)
    /\ SeveritiesOf("content_amplification_bias")
         = IF 2 * Cardinality(BotAmplifying) > Cardinality(AllAmplifying)
             THEN <<IF 5 * Cardinality(BotAmplifying) > 4 * Cardinality(AllAmplifying)
                      THEN "medium" ELSE "low">>
             ELSE <<>>

\* two of three events are a bot's, one of them the first revision's: "low"
Wit_C22 ==
  /\ pc = "aggregated"
  /\ Cardinality(AllAmplifying) = 3
  /\ Cardinality(BotAmplifying) = 2
  /\ 1 \in BotAmplifying
  /\ SeveritiesOf("content_amplification_bias") = <<"low">>

\* the only event is the first revision's, a bot's: "medium"
Wit_C22_medium ==
  /\ pc = "aggregated"
  /\ AllAmplifying = {1}
  /\ BotAmplifying = {1}
  /\ SeveritiesOf("content_amplification_bias") = <<"medium">>

\* one of two events is a bot's, exactly 50%: none
Wit_C22_half ==
  /\ pc = "aggregated"
  /\ Cardinality(AllAmplifying) = 2
  /\ Cardinality(BotAmplifying) = 1
  /\ SeveritiesOf("content_amplification_bias") = <<>>

\* a series with a revision and no event: none
Wit_C22_none ==
  /\ pc = "aggregated"
  /\ revs # <<>>
  /\ AllAmplifying = {}
  /\ SeveritiesOf("content_amplification_bias") = <<>>

\* the titles of the model that hold a keyword of the one list and of the
\* other, read off the two lists by hand
ControversialTitles == {"Climate change denial", "Vaccination Debate", "Vaccine HESITANCY"}
PolarizedTitles == {"Climate change denial", "Vaccination Debate", "Gun Control"}

\* C23: "controversial_topic_bias" (medium) is emitted iff the title holds
\* one of controversy, debate, dispute, criticism, opposition, denial,
\* hesitancy and the bot ratio is above 0.2; "perception_bias_risk" (low) iff
\* the title holds one of gun control, abortion, immigration, vaccination,
\* climate change and the bot ratio is above 0.15.  The letters' case does
\* not matter, a ratio exactly at the threshold emits nothing, and nothing
\* else of the series matters.
Thm_C23 ==
  pc = "aggregated" =>
    /\ SeveritiesOf("controversial_topic_bias")
         = IF page_title \in ControversialTitles /\ 5 * BotEdits > TotalEdits
             THEN <<"medium">> ELSE <<>>
    /\ SeveritiesOf("perception_bias_risk")
         = IF page_title \in PolarizedTitles /\ 20 * BotEdits > 3 * TotalEdits
             THEN <<"low">> ELSE <<>>

\* a title in capitals with a keyword of the first list only, above 0.2
Wit_C23 ==
  /\ pc = "aggregated"
  /\ page_title = "Vaccine HESITANCY"
  /\ SeveritiesOf("controversial_topic_bias") = <<"medium">>
  /\ SeveritiesOf("perception_bias_risk") = <<>>

\* a title with a keyword of the second list only, above 0.15
Wit_C23_polarized ==
  /\ pc = "aggregated"
  /\ page_title = "Gun Control"
  /\ SeveritiesOf("perception_bias_risk") = <<"low">>
  /\ SeveritiesOf("controversial_topic_bias") = <<>>

\* keywords of both lists and a ratio of exactly 0.2: the second only
Wit_C23_fifth ==
  /\ pc = "aggregated"
  /\ page_title = "Vaccination Debate"
  /\ TotalEdits > 0
  /\ 5 * BotEdits = TotalEdits
  /\ SeveritiesOf("controversial_topic_bias") = <<>>
  /\ SeveritiesOf("perception_bias_risk") = <<"low">>

\* keywords of both lists and a ratio of exactly 0.15: neither
Wit_C23_threshold ==
  /\ pc = "aggregated"
  /\ page_title = "Climate change denial"
  /\ TotalEdits > 0
  /\ 20 * BotEdits = 3 * TotalEdits
  /\ SeveritiesOf("controversial_topic_bias") = <<>>
  /\ SeveritiesOf("perception_bias_risk") = <<>>

\* a title without a keyword and a series of bot revisions: neither
Wit_C23_plain ==
  /\ pc = "aggregated"
  /\ page_title = "History of tea"
  /\ BotEdits = TotalEdits
  /\ TotalEdits > 0
  /\ SeveritiesOf("controversial_topic_bias") = <<>>
  /\ SeveritiesOf("perception_bias_risk") = <<>>

-----------------------------------------------------------------------------
(* The content of a revision (SpecContent).                                 *)

\* the string the record d holds under key, "" when it holds none
Held(d, key) == IF key \in DOMAIN d /\ d[key] # None THEN d[key][1] ELSE ""

\* the main slot of the revision, an empty one when it has none
MainOf(r) ==
  IF "slots" \in DOMAIN r /\ r.slots # None /\ "main" \in DOMAIN r.slots[1]
    THEN r.slots[1].main[1] ELSE EmptyDict

\* the four places in their order: nested content, nested *, content, *
Places(r) == <<Held(MainOf(r), "content"), Held(MainOf(r), "*"), Held(r, "content"), Held(r, "*")>>

\* the first non-empty string of the list l, "" when there is none
FirstNonEmpty(l) ==
  IF \E k \in 1..Len(l) : l[k] # ""
    THEN l[CHOOSE k \in 1..Len(l) : l[k] # "" /\ \A h \in 1..(k - 1) : l[h] = ""]
    ELSE ""

\* C24: the content taken for a revision is the first non-empty of the
\* nested main-slot "content", the nested main-slot "*", the top-level
\* "content" and the top-level "*", in that order, and the empty string when
\* all four are absent or empty; a non-empty nested value wins over any
\* top-level value.
Thm_C24 ==
  pc = "content" =>
    /\ text = FirstNonEmpty(Places(rev))
    /\ (Places(rev)[1] # "" \/ Places(rev)[2] # "")
         => text # "" /\ text \in {Places(rev)[1], Places(rev)[2]}

\* all four places hold a string and the nested "content" is empty
Wit_C24 ==
  /\ pc = "content"
  /\ Places(rev) = <<"", "the main star", "the content", "the star">>
  /\ text = "the main star"

\* nothing nested, an empty top-level "content": the top-level "*"
Wit_C24_star ==
  /\ pc = "content"
  /\ Places(rev) = <<"", "", "", "the star">>
  /\ "content" \in DOMAIN rev
  /\ text = "the star"

\* slots without a main slot and a top-level "content"
Wit_C24_content ==
  /\ pc = "content"
  /\ "slots" \in DOMAIN rev
  /\ rev.slots = Some(EmptyDict)
  /\ Places(rev)[3] = "the content"
  /\ text = "the content"

\* none of the four: the empty string
Wit_C24_empty ==
  /\ pc = "content"
  /\ DOMAIN rev = {}
  /\ text = ""

-----------------------------------------------------------------------------
(* Properties of the topic summary (SpecTopic).                             *)

\* a non-empty revision list was fetched for page k
Fetched(k) == pages[k].revs # <<>>

\* the analysis of page k completes: no revision after the first is without
\* content (see C2)
Completes(k) == \A j \in 2..Len(pages[k].revs) : rev_content_of(pages[k].revs[j]) # ""

\* among the first n pages: those fetched, and those fetched and analysed
FetchedPages(n) == {k \in 1..n : Fetched(k)}
KeptPages(n) == {k \in 1..n : Fetched(k) /\ Completes(k)}

\* the revisions, and the bot-classified revisions, of the pages in S
RECURSIVE EditsOf(_)
EditsOf(S) ==
  IF S = {} THEN 0
  ELSE LET k == CHOOSE x \in S : TRUE
       IN  Len(pages[k].revs) + EditsOf(S \ {k})
RECURSIVE BotEditsOf(_)
BotEditsOf(S) ==
  IF S = {} THEN 0
  ELSE LET k == CHOOSE x \in S : TRUE
       IN  Cardinality({j \in 1..Len(pages[k].revs) : is_bot_revision(pages[k].revs[j]).ret})
             + BotEditsOf(S \ {k})

\* the indicator lists of the page results from the j-th on, one after another
RECURSIVE ListsFrom(_, _)
ListsFrom(results, j) ==
  IF j > Len(results) THEN <<>>
  ELSE results[j].bias_indicators \o ListsFrom(results, j + 1)

\* the page results are those of the pages in S, in their order
ResultsAre(results, S) ==
  /\ Len(results) = Cardinality(S)
  /\ \A j \in 1..Len(results) :
       /\ results[j].pageid \in S
       /\ Cardinality({k \in S : k < results[j].pageid}) = j - 1
       /\ results[j].title = pages[results[j].pageid].title
       /\ results[j].total_edits = Len(pages[results[j].pageid].revs)

\* the summary adds up the pages in S
AddsUp(ta, S) ==
  /\ ResultsAre(ta.page_results, S)
  /\ ta.total_edits = EditsOf(S)
  /\ ta.total_bot_edits = BotEditsOf(S)
  /\ ta.bias_indicators = ListsFrom(ta.page_results, 1)

\* C25: when analyze_topic_bias returns a summary, total_edits is the sum of
\* the revision counts, total_bot_edits the sum of the bot-classified
\* revision counts and bias_indicators the in-order concatenation of the
\* per-page indicator lists, over all the pages for which a non-empty
\* revision list was fetched.
Cex_C25 ==
  (topic_pc = "returned" /\ topic_analysis # None) =>
    AddsUp(topic_analysis[1], FetchedPages(Len(pages)))

\* C25 over the pages that were fetched and whose analysis completed
Aux_C25_kept ==
  (topic_pc = "returned" /\ topic_analysis # None) =>
    AddsUp(topic_analysis[1], KeptPages(Len(pages)))

\* a summary is returned that leaves out a page with two revisions
Aux_C25_reached ==
  /\ topic_pc = "returned"
  /\ topic_analysis # None
  /\ Len(pages) = 2
  /\ Len(pages[1].revs) = 1
  /\ Len(pages[2].revs) = 2
  /\ ~Completes(2)
  /\ topic_analysis[1].total_edits = 1

\* C30: a page whose fetch returns no revisions or whose analysis raises is
\* skipped as a whole: after any number of titles the page results, the two
\* totals and the indicators are those of the other pages, and the loop goes
\* on to the last title; so there are at most pages_analyzed page results
\* and total_bot_edits <= total_edits after every page.
Thm_C30 ==
  topic_analysis # None =>
    /\ AddsUp(topic_analysis[1], KeptPages(title_index))
    /\ Len(topic_analysis[1].page_results) <= topic_analysis[1].pages_analyzed
    /\ topic_analysis[1].pages_analyzed = Len(pages)
    /\ topic_analysis[1].total_bot_edits <= topic_analysis[1].total_edits
    /\ topic_pc = "returned" => title_index = Len(pages)

\* a page without revisions, then a page whose analysis raises, then a page
\* that is added, and the summary returned
Wit_C30 ==
  /\ topic_pc = "returned"
  /\ Len(pages) = 3
  /\ ~Fetched(1)
  /\ Fetched(2) /\ ~Completes(2)
  /\ KeptPages(3) = {3}
  /\ Len(topic_analysis[1].page_results) = 1
  /\ topic_analysis[1].total_edits = Len(pages[3].revs)
  /\ topic_analysis[1].total_bot_edits > 0

\* the analysis of the page the loop is at has raised, with a page added before
Wit_C30_raised ==
  /\ topic_pc = "loop"
  /\ pc = "raised"
  /\ title_index = 1
  /\ Len(topic_analysis[1].page_results) = 1

-----------------------------------------------------------------------------
\* The counts and the list lengths after k revisions.

\* edit_frequency[key] of the analysis so far (a defaultdict: 0 when absent)
FrequencyOf(key) ==
  LET ef == content_analysis.edit_frequency
  IN  IF key \in DOMAIN ef THEN ef[key] ELSE 0

\* the four lists that get an entry for every revision after the first
DeltaLengths ==
  {Len(content_analysis.size_changes), Len(content_analysis.citation_changes),
   Len(content_analysis.bias_phrase_analysis), Len(content_analysis.neutrality_analysis)}

\* C26: after analyze_content_changes has processed k >= 1 revisions without
\* raising, the bot count plus the human count is k, each of size_changes,
\* citation_changes, bias_phrase_analysis and neutrality_analysis has exactly
\* k - 1 entries, and content_amplification has at most k entries.
Thm_C26 ==
  (pc \in {"loop", "returned"} /\ i >= 1) =>
     /\ FrequencyOf("bot") + FrequencyOf("human") = i
     /\ DOMAIN content_analysis.edit_frequency \subseteq {"bot", "human"}
     /\ DeltaLengths = {i - 1}
     /\ Len(content_analysis.content_amplification) <= i

\* three revisions by both kinds of author are processed and the call returns
Wit_C26 ==
  /\ pc = "returned"
  /\ i = 3
  /\ FrequencyOf("bot") >= 1
  /\ FrequencyOf("human") >= 1
  /\ DeltaLengths = {2}
  /\ Len(content_analysis.content_amplification) \in 1..2

\* a prefix of a longer sequence, and an amplification event for every revision
Wit_C26_prefix == pc = "loop" /\ i = 2 /\ Len(revs) > 2 /\ DeltaLengths = {1}
Wit_C26_all == pc = "returned" /\ i >= 2 /\ Len(content_analysis.content_amplification) = i

-----------------------------------------------------------------------------
\* The bound of the score reduction.

ViolationTypes ==
  {"missing_counterpoints", "one_sided_argument", "excessive_loaded_language",
   "first_person_pov"}

\* the largest reduction: a high, two medium and a low violation
MAX_REDUCTION == HIGH_WEIGHT + 2 * MEDIUM_WEIGHT + LOW_WEIGHT

\* C27: for every text analyze_neutrality_alignment emits at most four
\* violations, at most one of each of the types missing_counterpoints,
\* one_sided_argument, excessive_loaded_language and first_person_pov, so the
\* score reduction is at most 0.65, neutrality_score is at least 0.35, and
\* max(0, .) returns its second argument.
Thm_C27 ==
  neutrality_result # <<>> =>
    LET r == neutrality_result[1]
    IN  /\ Len(r.violations) <= 4
        /\ \A k \in 1..Len(r.violations) : r.violations[k].type \in ViolationTypes
        /\ \A type \in ViolationTypes : Cardinality(ViolationsOfType(r, type)) <= 1
        /\ score_reduction(r.violations) <= MAX_REDUCTION
        /\ MAX_REDUCTION = 65
        /\ r.neutrality_score >= 35
        /\ r.neutrality_score = 100 - score_reduction(r.violations)

\* a text with all four violations: the lowest score
Wit_C27 ==
  /\ neutrality_result # <<>>
  /\ \A type \in ViolationTypes :
        Cardinality(ViolationsOfType(neutrality_result[1], type)) = 1
  /\ neutrality_result[1].neutrality_score = 35

\* a text that two of the one-sided patterns are found in
Wit_C27_patterns ==
  /\ neutrality_result # <<>>
  /\ Cardinality({k \in 1..Len(NEUTRALITY_PATTERNS.one_sided) :
                    search(NEUTRALITY_PATTERNS.one_sided[k], text)}) >= 2
  /\ Cardinality(ViolationsOfType(neutrality_result[1], "one_sided_argument")) = 1

\* a text with several strong claims and several first-person statements
Wit_C27_many ==
  /\ neutrality_result # <<>>
  /\ StrongClaims >= 3
  /\ findall_len(NEUTRALITY_PATTERNS.pov_indicators, text) >= 2
  /\ Len(neutrality_result[1].violations) = 2

-----------------------------------------------------------------------------
\* The order of the indicators.

\* the place of an indicator type in the order of the checks; the two
\* outcomes of one comparison share a place
IndicatorOrder ==
  [high_bot_ratio |-> 1, citation_bias |-> 2, content_amplification_bias |-> 3,
   maintenance_bias |-> 4, controversial_topic_bias |-> 5,
   biased_language_bias |-> 6, biased_language_correction |-> 6,
   neutrality_bias |-> 7, neutrality_correction |-> 7,
   neutrality_violation_bias |-> 8, perception_bias_risk |-> 9]

\* the types of the indicators detect_bias_patterns returned, in order
EmittedTypes == [k \in 1..Len(indicators[1]) |-> indicators[1][k].type]

\* C28: the list detect_bias_patterns returns has each indicator type at most
\* once, never both biased_language_bias and biased_language_correction, never
\* both neutrality_bias and neutrality_correction, and its indicators are in
\* the order high_bot_ratio, citation_bias, content_amplification_bias,
\* maintenance_bias, controversial_topic_bias, biased_language_*,
\* neutrality_bias or neutrality_correction, neutrality_violation_bias,
\* perception_bias_risk.
Thm_C28 ==
  pc = "aggregated" =>
    /\ \A k \in 1..Len(EmittedTypes) : EmittedTypes[k] \in DOMAIN IndicatorOrder
    /\ \A j, k \in 1..Len(EmittedTypes) :
          j < k => IndicatorOrder[EmittedTypes[j]] < IndicatorOrder[EmittedTypes[k]]

\* a list from the ratio to the perception risk, with a content and a topic
\* indicator between them
Wit_C28 ==
  /\ pc = "aggregated"
  /\ Len(EmittedTypes) >= 5
  /\ \E j, k \in 1..Len(EmittedTypes) :
        /\ EmittedTypes[j] = "maintenance_bias"
        /\ EmittedTypes[k] = "controversial_topic_bias"
  /\ EmittedTypes[1] = "high_bot_ratio"
  /\ EmittedTypes[Len(EmittedTypes)] = "perception_bias_risk"

\* lists with either outcome of the two comparisons
Wit_C28_bias ==
  /\ pc = "aggregated"
  /\ \E j, k \in 1..Len(EmittedTypes) :
        EmittedTypes[j] = "biased_language_bias" /\ EmittedTypes[k] = "neutrality_bias"
Wit_C28_correction ==
  /\ pc = "aggregated"
  /\ \E j, k \in 1..Len(EmittedTypes) :
        /\ EmittedTypes[j] = "biased_language_correction"
        /\ EmittedTypes[k] = "neutrality_correction"
Wit_C28_violation ==
  /\ pc = "aggregated"
  /\ \E j, k \in 1..Len(EmittedTypes) :
        /\ EmittedTypes[j] \in {"neutrality_bias", "neutrality_correction"}
        /\ EmittedTypes[k] = "neutrality_violation_bias"
Wit_C28_citation ==
  /\ pc = "aggregated"
  /\ \E j, k \in 1..Len(EmittedTypes) :
        /\ EmittedTypes[j] = "citation_bias"
        /\ EmittedTypes[k] = "content_amplification_bias"
Wit_C28_empty == pc = "aggregated" /\ EmittedTypes = <<>>

-----------------------------------------------------------------------------
\* The two versions of analyze_content_changes on one list.

\* both calls have ended
BothEnded == api_pc \in {"returned", "raised"} /\ pc \in {"returned", "raised"}

SharedOutputs == {"size_changes", "citation_changes", "content_amplification", "edit_frequency"}

\* the two returned dicts agree on the outputs both have
SharedAgree ==
  \A key \in SharedOutputs : outcome[1].ret[key] = api_outcome[1].ret[key]

\* C29: for every revision sequence analyze_content_changes of week7.py and
\* of week7_api.py have the same outcome on size_changes, citation_changes,
\* content_amplification and edit_frequency: either both return, with equal
\* values of the four, or both raise the same exception.
Cex_C29 ==
  BothEnded =>
    /\ (pc = "returned") = (api_pc = "returned")
    /\ pc = "returned" => SharedAgree
    /\ pc = "raised" => outcome[1].exc = api_outcome[1].exc

\* when the call of week7.py returns, that of week7_api.py returned the same
\* four values
Aux_C29_returned ==
  (BothEnded /\ pc = "returned") => (api_pc = "returned" /\ SharedAgree)

\* the call of week7.py raises only on a revision after the first without
\* content, and then the call of week7_api.py returned
Aux_C29_raised ==
  (BothEnded /\ pc = "raised") =>
     /\ outcome[1].exc = "KeyError"
     /\ api_pc = "returned"
     /\ i >= 1
     /\ rev_content_of(revs[i + 1]) = ""

\* both returned for a series with size, citation and amplification entries
Aux_C29_reached ==
  /\ BothEnded
  /\ pc = "returned"
  /\ Len(revs) = 3
  /\ Len(api_outcome[1].ret.content_amplification) >= 2
  /\ \E k \in 1..2 : api_outcome[1].ret.citation_changes[k].citation_delta # 0
  /\ DOMAIN api_outcome[1].ret.edit_frequency = {"bot", "human"}

\* the call of week7_api.py returned and that of week7.py raised
Aux_C29_diverged == BothEnded /\ pc = "raised" /\ api_pc = "returned"

====
